---------------------------- MODULE Spec2Model ----------------------------
(***************************************************************************)
(* Hybrid retrieval and ranking pipeline of the QBOT chat assistant        *)
(* (lib/supabase searchDocuments / fallbackSearch, lib/embeddings, and the *)
(* chat route that drives them).                                           *)
(*                                                                         *)
(* Conventions                                                             *)
(*  - a JavaScript string is a sequence of one-character strings, so that  *)
(*    toLowerCase, includes, split and the regular expressions of the code *)
(*    are computed character by character;                                 *)
(*  - a score (a JavaScript number in 0..~1.05) is an integer number of    *)
(*    1/Scale units; Scale is chosen so that every product and quotient    *)
(*    the code forms on the modelled inputs is exact (no rounding);        *)
(*  - an absent (undefined / null) text is the empty string and an absent  *)
(*    year is 0: the code tests both only for truthiness.                  *)
(***************************************************************************)
EXTENDS Integers, Sequences, FiniteSets, TLC

(***************************************************************************)
(* Bounds of the model                                                     *)
(***************************************************************************)
\* largest number of rows one provider response carries
MaxRows == 2

\* largest number of words of a query text handed to extractKeywords on its own
MaxWords == 2

\* largest number of half-TTL steps of the clock
MaxTicks == 3

\* one score unit is 1/Scale; 2520 = lcm(1..10) keeps keyword fractions exact
Scale == 2520 * 100

Max(a, b) == IF a >= b THEN a ELSE b
Min(a, b) == IF a <= b THEN a ELSE b

(***************************************************************************)
(* Strings                                                                 *)
(***************************************************************************)
UpperChars == <<"A","B","C","D","E","F","G","H","I","J","K","L","M","N","O","P","Q","R","S","T","U","V","W","X","Y","Z">>
LowerChars == <<"a","b","c","d","e","f","g","h","i","j","k","l","m","n","o","p","q","r","s","t","u","v","w","x","y","z">>
DigitChars == <<"0","1","2","3","4","5","6","7","8","9">>

UpperSet == {UpperChars[i] : i \in 1..26}
LowerSet == {LowerChars[i] : i \in 1..26}
DigitSet == {DigitChars[i] : i \in 1..10}

LowerOf == [c \in UpperSet |-> LowerChars[CHOOSE i \in 1..26 : UpperChars[i] = c]]
UpperOf == [c \in LowerSet |-> UpperChars[CHOOSE i \in 1..26 : LowerChars[i] = c]]

\* String.prototype.toLowerCase
toLowerCase(s) == [i \in 1..Len(s) |-> IF s[i] \in UpperSet THEN LowerOf[s[i]] ELSE s[i]]

\* String.prototype.toUpperCase
toUpperCase(s) == [i \in 1..Len(s) |-> IF s[i] \in LowerSet THEN UpperOf[s[i]] ELSE s[i]]

\* the regular expression class \w
IsWordChar(c) == c \in UpperSet \cup LowerSet \cup DigitSet \cup {"_"}

\* the regular expression class \s
IsSpace(c) == c \in {" ", "\t", "\n", "\r"}

\* String.prototype.includes
includes(text, part) ==
  \E i \in 0..(Len(text) - Len(part)) : SubSeq(text, i + 1, i + Len(part)) = part

startsWith(text, part) ==
  Len(part) <= Len(text) /\ SubSeq(text, 1, Len(part)) = part

endsWith(text, part) ==
  Len(part) <= Len(text) /\ SubSeq(text, Len(text) - Len(part) + 1, Len(text)) = part

\* String.prototype.trim
trim(s) ==
  IF \A i \in 1..Len(s) : IsSpace(s[i]) THEN <<>>
  ELSE LET first == CHOOSE i \in 1..Len(s) :
                      ~IsSpace(s[i]) /\ \A j \in 1..(i - 1) : IsSpace(s[j])
           last  == CHOOSE i \in 1..Len(s) :
                      ~IsSpace(s[i]) /\ \A j \in (i + 1)..Len(s) : IsSpace(s[j])
       IN SubSeq(s, first, last)

\* String.prototype.split(sep) for a one-character separator: the pieces
\* between the separators, empty pieces included
RECURSIVE splitChar(_, _, _, _)
splitChar(s, sep, i, cur) ==
  IF i > Len(s) THEN <<cur>>
  ELSE IF s[i] = sep THEN <<cur>> \o splitChar(s, sep, i + 1, <<>>)
  ELSE splitChar(s, sep, i + 1, Append(cur, s[i]))

\* String.prototype.split(/\s+/): the pieces between maximal whitespace runs;
\* a leading or trailing run leaves an empty piece at that end
RECURSIVE splitSpaces(_, _, _)
splitSpaces(s, i, cur) ==
  IF i > Len(s) THEN <<cur>>
  ELSE IF IsSpace(s[i])
       THEN IF i > 1 /\ IsSpace(s[i - 1])
            THEN splitSpaces(s, i + 1, cur)
            ELSE <<cur>> \o splitSpaces(s, i + 1, <<>>)
  ELSE splitSpaces(s, i + 1, Append(cur, s[i]))

\* Array.prototype.join for an array of strings
RECURSIVE join(_, _)
join(parts, sep) ==
  IF parts = <<>> THEN <<>>
  ELSE IF Len(parts) = 1 THEN parts[1]
  ELSE parts[1] \o sep \o join(Tail(parts), sep)

\* Array.prototype.slice(0, n)
slice(s, n) == SubSeq(s, 1, Min(Len(s), n))

\* padding that makes a content field longer than the 200 characters below
\* which isGenericPage treats a page as a landing page
Pad == [i \in 1..200 |-> "."]

(***************************************************************************)
(* extractKeywords (lib/supabase)                                          *)
(***************************************************************************)
stopWords == {
  <<"t","h","e">>, <<"i","s">>, <<"a","t">>, <<"w","h","i","c","h">>, <<"o","n">>, <<"a">>, <<"a","n">>, <<"a","n","d">>, <<"o","r">>, <<"b","u","t">>, <<"i","n">>,
  <<"w","i","t","h">>, <<"t","o">>, <<"f","o","r">>, <<"o","f">>, <<"a","s">>, <<"b","y">>, <<"f","r","o","m">>,
  <<"w","h","a","t">>, <<"h","o","w">>, <<"w","h","y">>, <<"w","h","e","n">>, <<"w","h","e","r","e">>, <<"w","h","o">>, <<"w","h","o","m">>, <<"w","h","o","s","e">>, <<"d","o","e","s">>,
  <<"d","o">>, <<"d","i","d">>,
  <<"h","a","s">>, <<"h","a","v","e">>, <<"h","a","d">>, <<"c","a","n">>, <<"c","o","u","l","d">>, <<"w","o","u","l","d">>, <<"s","h","o","u","l","d">>, <<"w","i","l","l">>, <<"a","r","e">>,
  <<"w","a","s">>, <<"w","e","r","e">>, <<"b","e","e","n">>, <<"b","e","i","n","g">>, <<"g","e","t">>, <<"g","o","t">>,
  <<"k","t","h">>, <<"r","e","s","e","a","r","c","h">>, <<"d","o","i","n","g">>, <<"w","o","r","k">>, <<"w","o","r","k","i","n","g">>, <<"a","b","o","u","t">>, <<"r","o","y","a","l">>,
  <<"i","n","s","t","i","t","u","t","e">>, <<"t","e","c","h","n","o","l","o","g","y">>,
  <<"t","h","e","i","r">>, <<"t","h","e","m">>, <<"t","h","e","y">>, <<"t","h","i","s">>, <<"t","h","a","t">>, <<"t","h","e","s","e">>, <<"t","h","o","s","e">>, <<"i","t","s">>, <<"i","t">>,
  <<"w","e">>, <<"o","u","r">>, <<"y","o","u">>, <<"y","o","u","r">>, <<"i">>, <<"m","e">>, <<"m","y">>,
  <<"n","e","w">>, <<"r","e","c","e","n","t">>, <<"l","a","t","e","s","t">>, <<"g","o","o","d">>, <<"b","e","s","t">>, <<"g","r","e","a","t">>, <<"r","e","a","l","l","y">>, <<"v","e","r","y">>,
  <<"m","u","c","h">>, <<"m","o","r","e">>, <<"m","o","s","t">>, <<"s","o","m","e">>, <<"a","n","y">>, <<"a","l","l">>,
  <<"e","v","e","r","y","o","n","e">>, <<"e","v","e","r","y","b","o","d","y">>, <<"s","o","m","e","o","n","e">>, <<"s","o","m","e","b","o","d","y">>, <<"a","n","y","o","n","e">>, <<"a","n","y","b","o","d","y">>,
  <<"t","h","i","n","g">>, <<"t","h","i","n","g","s">>, <<"s","t","u","f","f">>,
  <<"t","a","l","k","i","n","g">>, <<"s","a","y","i","n","g">>, <<"t","h","i","n","k">>, <<"t","h","i","n","k","i","n","g">>, <<"k","n","o","w">>, <<"k","n","o","w","i","n","g">>, <<"t","e","l","l">>,
  <<"t","o","l","d">>, <<"s","a","y">>, <<"s","a","i","d">>,
  <<"l","i","k","e">>, <<"w","a","n","t">>, <<"n","e","e","d">>, <<"g","o","i","n","g">>, <<"g","o","n","n","a">>, <<"a","c","t","u","a","l","l","y">>, <<"b","a","s","i","c","a","l","l","y">>,
  <<"l","i","t","e","r","a","l","l","y">>,
  <<"c","o","o","l">>, <<"i","n","t","e","r","e","s","t","i","n","g">>, <<"i","m","p","o","r","t","a","n","t">>, <<"m","a","t","t","e","r">>, <<"m","a","t","t","e","r","s">>, <<"d","e","a","l">>, <<"b","i","g">>,
  <<"l","o","t">>, <<"l","o","t","s">>,
  <<"w","a","h","t">>, <<"b","o","u","t">>, <<"a","b","o","t">>, <<"w","h","a","t","s">>, <<"h","o","w","s">>, <<"w","h","y","s">>,
  <<"w","h","a","t","'","s">>, <<"h","o","w","'","s">>, <<"w","h","y","'","s">>, <<"w","h","o","'","s">>, <<"w","h","e","r","e","'","s">>, <<"w","h","e","n","'","s">> }

knownAcronyms == {
  <<"s","e","e","d">>, <<"b","e","c","c","s">>, <<"c","c","s">>, <<"c","c","u","s">>, <<"d","a","c">>, <<"i","t","m">>, <<"a","b","e">>, <<"e","e","c","s">>, <<"s","c","i">>, <<"c","b","h">> }

\* query.replace(/[^\w\s]/g, ' ')
replaceNonWord(s) ==
  [i \in 1..Len(s) |-> IF IsWordChar(s[i]) \/ IsSpace(s[i]) THEN s[i] ELSE " "]

NonEmpty(w) == Len(w) > 0

\* /^[A-Z]{2,6}$/.test(word)
isAllCapsAcronym(word) ==
  Len(word) \in 2..6 /\ \A i \in 1..Len(word) : word[i] \in UpperSet

isKnownAcronym(word) == toLowerCase(word) \in knownAcronyms

\* the body of words.forEach without the acronym branch: every word is
\* lowercased and filtered
keywordOfLowercasing(word) ==
  LET lower == toLowerCase(word)
  IN IF Len(lower) > 2 /\ lower \notin stopWords THEN <<lower>> ELSE <<>>

\* the body of words.forEach: the keywords one word contributes
keywordOf(word) ==
  IF isAllCapsAcronym(word) \/ isKnownAcronym(word)
  THEN <<toUpperCase(word)>>
  ELSE LET lower == toLowerCase(word)
       IN IF Len(lower) > 2 /\ lower \notin stopWords THEN <<lower>> ELSE <<>>

RECURSIVE keywordsOf(_)
keywordsOf(words) ==
  IF words = <<>> THEN <<>> ELSE keywordOf(Head(words)) \o keywordsOf(Tail(words))

extractKeywords(query) ==
  keywordsOf(SelectSeq(splitSpaces(replaceNonWord(query), 1, <<>>), NonEmpty))

(***************************************************************************)
(* keywordMatchScore (lib/supabase)                                        *)
(***************************************************************************)
TECHNICAL_TERMS == {
  <<"b","e","c","c","s">>, <<"c","c","s">>, <<"c","c","u","s">>, <<"d","a","c">>, <<"c","a","r","b","o","n"," ","c","a","p","t","u","r","e">>, <<"c","a","r","b","o","n"," ","d","i","o","x","i","d","e">>, <<"c","o","2">>,
  <<"h","y","d","r","o","g","e","n">>, <<"s","o","l","a","r">>, <<"w","i","n","d">>, <<"n","u","c","l","e","a","r">>, <<"b","i","o","f","u","e","l">>, <<"b","i","o","e","n","e","r","g","y">>, <<"b","i","o","g","a","s">>,
  <<"h","e","a","t"," ","p","u","m","p">>, <<"d","i","s","t","r","i","c","t"," ","h","e","a","t","i","n","g">>, <<"e","n","e","r","g","y"," ","s","t","o","r","a","g","e">>, <<"b","a","t","t","e","r","y">>,
  <<"e","l","e","c","t","r","i","c"," ","v","e","h","i","c","l","e">>,
  <<"e","m","i","s","s","i","o","n">>, <<"g","r","e","e","n","h","o","u","s","e">>, <<"c","l","i","m","a","t","e">>, <<"s","u","s","t","a","i","n","a","b","l","e">>, <<"r","e","n","e","w","a","b","l","e">>, <<"f","o","s","s","i","l">>,
  <<"p","h","o","t","o","v","o","l","t","a","i","c">>, <<"g","e","o","t","h","e","r","m","a","l">>, <<"h","y","d","r","o","p","o","w","e","r">>, <<"b","i","o","m","a","s","s">>, <<"s","e","q","u","e","s","t","r","a","t","i","o","n">>,
  <<"n","e","g","a","t","i","v","e"," ","e","m","i","s","s","i","o","n">>, <<"n","e","t"," ","z","e","r","o">>, <<"c","a","r","b","o","n"," ","n","e","u","t","r","a","l">>, <<"d","e","c","a","r","b","o","n","i","z","a","t","i","o","n">> }

keywordWeight(keyword) == IF toLowerCase(keyword) \in TECHNICAL_TERMS THEN 3 ELSE 1

RECURSIVE SumWeights(_, _, _)
SumWeights(keywords, Counted(_), i) ==
  IF i > Len(keywords) THEN 0
  ELSE (IF Counted(keywords[i]) THEN keywordWeight(keywords[i]) ELSE 0)
       + SumWeights(keywords, Counted, i + 1)

keywordMatchScore(doc, keywords) ==
  IF Len(keywords) = 0 THEN 0
  ELSE LET text == toLowerCase(doc.title \o <<" ">> \o doc.content \o <<" ">>
                               \o doc.category \o <<" ">> \o doc.author)
           Every(k) == TRUE
           Hit(k) == includes(text, toLowerCase(k))
           totalWeight   == SumWeights(keywords, Every, 1)
           matchedWeight == SumWeights(keywords, Hit, 1)
       IN IF totalWeight > 0 THEN (matchedWeight * Scale) \div totalWeight ELSE 0

(***************************************************************************)
(* The document store: rows of the documents table (RawDocument).  year 0  *)
(* is an absent year; embeddings is the parsed vector, <<>> for a row      *)
(* stored without one ('[]').                                              *)
(***************************************************************************)
Corpus == <<
  [ title |-> <<"B","E","C","C","S"," ","R","e","s","e","a","r","c","h"," ","O","v","e","r","v","i","e","w">>,
    content |-> <<"B","E","C","C","S"," ","i","s"," ","b","i","o","e","n","e","r","g","y"," ","w","i","t","h"," ","c","a","r","b","o","n"," ","c","a","p","t","u","r","e">> \o Pad,
    category |-> <<"E","n","e","r","g","y">>, author |-> <<"J","o","h","n","s","s","o","n">>, year |-> 2026,
    embeddings |-> <<5, 0>> ],
  [ title |-> <<"R","e","s","e","a","r","c","h"," ","|"," ","K","T","H">>,
    content |-> <<"s","o","l","a","r"," ","e","n","e","r","g","y"," ","r","e","s","e","a","r","c","h"," ","a","t"," ","K","T","H">> \o Pad,
    category |-> <<"G","e","n","e","r","a","l">>, author |-> <<"K","T","H">>, year |-> 0,
    embeddings |-> <<4, 3>> ],
  [ title |-> <<"S","o","l","a","r"," ","E","n","e","r","g","y"," ","S","t","u","d","y">>,
    content |-> <<"s","o","l","a","r"," ","e","n","e","r","g","y"," ","i","n"," ","S","w","e","d","e","n">> \o Pad,
    category |-> <<"E","n","e","r","g","y">>, author |-> <<"L","u","n","d","b","e","r","g">>, year |-> 2012,
    embeddings |-> <<3, 4>> ],
  [ title |-> <<"S","o","l","a","r"," ","E","n","e","r","g","y"," ","S","t","u","d","y">>,
    content |-> <<"s","o","l","a","r"," ","e","n","e","r","g","y"," ","a","n","d"," ","h","y","d","r","o","g","e","n"," ","s","t","o","r","a","g","e">> \o Pad,
    category |-> <<"E","n","e","r","g","y">>, author |-> <<"L","u","n","d","b","e","r","g">>, year |-> 2026,
    embeddings |-> <<5, 0>> ],
  [ title |-> <<"S","c","h","o","o","l"," ","o","f"," ","A","r","c","h","i","t","e","c","t","u","r","e"," ","|"," ","K","T","H">>,
    content |-> <<"h","y","d","r","o","g","e","n">> \o Pad,
    category |-> <<"G","e","n","e","r","a","l">>, author |-> <<"K","T","H">>, year |-> 2027,
    embeddings |-> <<>> ],
  [ title |-> <<"F","u","s","i","o","n"," ","R","o","a","d","m","a","p">>,
    content |-> <<"f","u","s","i","o","n"," ","p","o","w","e","r"," ","p","l","a","n","t","s">> \o Pad,
    category |-> <<"E","n","e","r","g","y">>, author |-> <<"E","k">>, year |-> 2046,
    embeddings |-> <<5, 0>> ] >>

DocIds == 1..Len(Corpus)

\* the contents of the documents table a behaviour runs against
Fixtures == { {}, {1}, {1, 2}, {3, 4}, {2, 3, 5}, {6} }

TitleOf(d) == Corpus[d.id].title

\* the query texts of the model; <<>> is a call without query text
QueryTexts == { <<>>, <<"W","h","a","t"," ","i","s"," ","B","E","C","C","S","?">>, <<"s","o","l","a","r"," ","e","n","e","r","g","y">>, <<"h","y","d","r","o","g","e","n"," ","a","t"," ","K","T","H">> }

\* query embeddings (text-embedding vectors, two dimensions here)
QueryEmbeddings == { <<5, 0>> }

\* the caller's limit and threshold
Limits == {1, 2}
Thresholds == { (40 * Scale) \div 100, (45 * Scale) \div 100, (50 * Scale) \div 100,
                (60 * Scale) \div 100 }

\* similarity values the vector lookup reports, raw ranks the BM25 lookup reports
VecScores == { (20 * Scale) \div 100, (60 * Scale) \div 100, (100 * Scale) \div 100 }
Bm25Scores == {0, 1, 2}

\* new Date().getFullYear()
CurrentYears == {2026}

\* sequences of at most n rows over distinct documents of db, each with a
\* reported score from scores
RECURSIVE RowSeqs(_, _, _)
RowSeqs(db, scores, n) ==
  IF n = 0 THEN { <<>> }
  ELSE { <<>> } \cup
       { <<[id |-> i, similarity |-> s]>> \o rest :
           i \in db, s \in scores, rest \in RowSeqs(db, scores, n - 1) }

DistinctIds(rows) == \A i, j \in 1..Len(rows) : i # j => rows[i].id # rows[j].id

\* the orders in which a select without ORDER BY can deliver the table
TableOrders(db) ==
  { r \in RowSeqs(db, {0}, Cardinality(db)) : Len(r) = Cardinality(db) /\ DistinctIds(r) }

(***************************************************************************)
(* isGenericPage (lib/supabase, STEP 7.5 of searchDocuments)               *)
(***************************************************************************)
exactGenericPages == {
  <<"r","e","s","e","a","r","c","h"," ","|"," ","k","t","h">>,
  <<"f","o","r","s","k","n","i","n","g"," ","|"," ","k","t","h">>,
  <<"n","e","w","s"," ","f","r","o","m"," ","k","t","h"," ","|"," ","k","t","h">>,
  <<"s","t","u","d","i","e","s"," ","a","t"," ","k","t","h"," ","|"," ","k","t","h"," ","|"," ","s","w","e","d","e","n">>,
  <<"s","t","u","d","i","e","s"," ","a","t"," ","k","t","h"," ","|"," ","k","t","h">>,
  <<"a","b","o","u","t"," ","k","t","h"," ","|"," ","k","t","h">>,
  <<"c","o","n","t","a","c","t"," ","|"," ","k","t","h">>,
  <<"k","t","h","'","s"," ","p","r","e","s","i","d","e","n","t"," ","a","n","d"," ","m","a","n","a","g","e","m","e","n","t"," ","|"," ","k","t","h">>,
  <<"b","u","s","i","n","e","s","s"," ","a","n","d"," ","c","o","m","m","u","n","i","t","y"," ","|"," ","k","t","h">>,
  <<"k","t","h"," ","i","n","n","o","v","a","t","i","o","n"," ","|"," ","k","t","h">>,
  <<"e","n","v","i","r","o","n","m","e","n","t"," ","a","n","d"," ","s","u","s","t","a","i","n","a","b","l","e"," ","d","e","v","e","l","o","p","m","e","n","t"," ","a","t"," ","k","t","h"," ","|"," ","k","t","h">>,
  <<"n","a","t","i","o","n","a","l"," ","i","n","f","r","a","s","t","r","u","c","t","u","r","e","s"," ","|"," ","k","t","h">>,
  <<"r","e","s","e","a","r","c","h"," ","c","e","n","t","r","e","s"," ","|"," ","k","t","h">>,
  <<"r","e","s","e","a","r","c","h"," ","e","n","v","i","r","o","n","m","e","n","t","s"," ","|"," ","k","t","h">>,
  <<"k","t","h","'","s"," ","r","e","s","e","a","r","c","h"," ","e","n","v","i","r","o","n","m","e","n","t","s"," ","|"," ","k","t","h">>,
  <<"k","t","h",":","s"," ","s","t","r","a","t","e","g","i","c"," ","r","e","s","e","a","r","c","h"," ","i","n","i","t","i","a","t","i","v","e","s"," ","|"," ","k","t","h">> }

\* /\|\s*kth$/i at the end of s, the bar standing at position p
EndsBarKth(s, p) ==
  /\ p \in 1..Len(s)
  /\ s[p] = "|"
  /\ endsWith(toLowerCase(s), <<"k","t","h">>)
  /\ p <= Len(s) - 3
  /\ \A j \in (p + 1)..(Len(s) - 3) : IsSpace(s[j])

\* /^<prefix>.+ \|\s*kth$/i.test(title): prefix, one or more characters other
\* than a line terminator, a space, a bar, optional whitespace, kth
matchesCategory(title, prefix) ==
  /\ startsWith(toLowerCase(title), prefix)
  /\ \E p \in 1..Len(title) :
       /\ EndsBarKth(title, p)
       /\ p - 1 >= Len(prefix) + 2
       /\ title[p - 1] = " "
       /\ \A j \in (Len(prefix) + 1)..(p - 2) : title[j] \notin {"\n", "\r"}

categoryPatterns == <<<<"s","c","h","o","o","l"," ","o","f"," ">>, <<"d","e","p","a","r","t","m","e","n","t"," ","o","f"," ">>, <<"t","h","e"," ","s","c","h","o","o","l"," ","o","f"," ">>, <<"d","i","v","i","s","i","o","n"," ","o","f"," ">>>>

\* /\s*\|\s*KTH$/i.test(title)
endsWithKthSuffix(title) == \E p \in 1..Len(title) : EndsBarKth(title, p)

keepPatterns == <<
  <<"r","e","s","e","a","r","c","h"," ","o","v","e","r","v","i","e","w">>, <<"p","r","o","j","e","c","t">>, <<"s","t","u","d","y">>, <<"a","s","s","e","s","s","m","e","n","t">>, <<"a","n","a","l","y","s","i","s">>, <<"b","e","c","c","s">>,
  <<"c","a","r","b","o","n"," ","c","a","p","t","u","r","e">>, <<"e","n","e","r","g","y">>, <<"c","l","i","m","a","t","e">>, <<"s","u","s","t","a","i","n","a","b","l","e">>, <<"w","o","r","k","s","h","o","p">>, <<"a","w","a","r","d">>,
  <<"i","n","i","t","i","a","t","i","v","e">> >>

\* isGenericPage without the test on the number of words before the bar
isGenericPageKeepsShort(title, content) ==
  IF title = <<>> THEN FALSE
  ELSE IF trim(toLowerCase(title)) \in exactGenericPages THEN TRUE
  ELSE IF \E i \in 1..Len(categoryPatterns) : matchesCategory(title, categoryPatterns[i])
       THEN TRUE
  ELSE IF endsWithKthSuffix(title)
       THEN ~(\E i \in 1..Len(keepPatterns) : includes(toLowerCase(title), keepPatterns[i]))
  ELSE IF content # <<>> /\ Len(content) < 200 THEN TRUE
  ELSE FALSE

isGenericPage(title, content) ==
  IF title = <<>> THEN FALSE
  ELSE IF trim(toLowerCase(title)) \in exactGenericPages THEN TRUE
  ELSE IF \E i \in 1..Len(categoryPatterns) : matchesCategory(title, categoryPatterns[i])
       THEN TRUE
  ELSE IF endsWithKthSuffix(title)
       THEN IF \E i \in 1..Len(keepPatterns) : includes(toLowerCase(title), keepPatterns[i])
            THEN Len(splitChar(trim(splitChar(title, "|", 1, <<>>)[1]), " ", 1, <<>>)) <= 2
            ELSE TRUE
  ELSE IF content # <<>> /\ Len(content) < 200 THEN TRUE
  ELSE FALSE

(***************************************************************************)
(* Scores                                                                  *)
(***************************************************************************)
\* x * 0.4, x * 0.6, x * 0.05 on scaled numbers
Times(x, num, den) == (x * num) \div den

\* a decimal constant of the code, n hundredths
Hundredths(n) == (n * Scale) \div 100

\* integer square root of a perfect square
ISqrt(n) == CHOOSE r \in 0..n : r * r = n

RECURSIVE Dot(_, _, _)
Dot(a, b, i) == IF i > Len(a) THEN 0 ELSE a[i] * b[i] + Dot(a, b, i + 1)

\* cosineSimilarity throws when the two vectors differ in length
cosineThrows(a, b) == Len(a) # Len(b)

\* cosineSimilarity of two vectors of equal length and non-zero norm (the
\* vectors of the model have integer norms, so the quotient is exact)
cosineSimilarity(a, b) ==
  (Dot(a, b, 1) * Scale) \div (ISqrt(Dot(a, a, 1)) * ISqrt(Dot(b, b, 1)))

\* recencyBoost of STEP 3: docYear ? Math.max(0, 1 - (currentYear - docYear) / 10) * 0.05 : 0
recencyBoost(docYear, currentYear) ==
  IF docYear = 0 THEN 0
  ELSE Times(Max(0, Scale - ((currentYear - docYear) * Scale) \div 10), 5, 100)

\* hybridScore of searchDocuments (RPC path)
hybridScore(vectorScore, keywordScore, boost) ==
  Times(vectorScore, 4, 10) + Times(keywordScore, 6, 10) + boost

\* hybridScore of fallbackSearch: no recency term
fallbackHybridScore(vectorScore, keywordScore) ==
  Times(vectorScore, 4, 10) + Times(keywordScore, 6, 10)

\* Array.prototype.sort((a, b) => b.similarity - a.similarity): stable,
\* descending by similarity (insertion of each element after its equals)
RECURSIVE insertSorted(_, _)
insertSorted(sorted, d) ==
  IF sorted = <<>> THEN <<d>>
  ELSE IF Head(sorted).similarity >= d.similarity
       THEN <<Head(sorted)>> \o insertSorted(Tail(sorted), d)
       ELSE <<d>> \o sorted

RECURSIVE sortBySimilarity(_)
sortBySimilarity(docs) ==
  IF docs = <<>> THEN <<>>
  ELSE insertSorted(sortBySimilarity(SubSeq(docs, 1, Len(docs) - 1)), docs[Len(docs)])

\* the seen-set filter of STEP 7: keeps the first document of each title
RECURSIVE dedupByTitle(_, _)
dedupByTitle(docs, seen) ==
  IF docs = <<>> THEN <<>>
  ELSE IF TitleOf(Head(docs)) \in seen THEN dedupByTitle(Tail(docs), seen)
  ELSE <<Head(docs)>> \o dedupByTitle(Tail(docs), seen \cup {TitleOf(Head(docs))})

(***************************************************************************)
(* searchDocuments: the synchronous stages between its awaits              *)
(***************************************************************************)
\* a scored document of a fallbackSearch result carries no vectorScore or
\* keywordScore field
NoScore == 0 - 1

\* const keywords = queryText ? extractKeywords(queryText) : []
keywordsFor(queryText) == IF queryText # <<>> THEN extractKeywords(queryText) ELSE <<>>

\* const vectorThreshold = Math.max(threshold - 0.35, 0.10)
vectorThreshold(threshold) == Max(threshold - Hundredths(35), Hundredths(10))

\* STEP 3: vectorResults.map(...)
hybridResults(vectorResults, keywords, currentYear) ==
  [i \in 1..Len(vectorResults) |->
     LET doc == Corpus[vectorResults[i].id]
         vectorScore == vectorResults[i].similarity
         keywordScore == IF Len(keywords) > 0 THEN keywordMatchScore(doc, keywords) ELSE 0
     IN [ id |-> vectorResults[i].id,
          similarity |-> hybridScore(vectorScore, keywordScore,
                                     recencyBoost(doc.year, currentYear)),
          vectorScore |-> vectorScore,
          keywordScore |-> keywordScore ] ]

\* the STEP 5 cut made with the loosened threshold of the vector lookup
aboveThresholdLoosened(docs, threshold) ==
  LET Keep(d) == d.similarity >= vectorThreshold(threshold) IN SelectSeq(docs, Keep)

\* STEP 5: hybridResults.filter(doc => doc.similarity >= threshold)
aboveThreshold(docs, threshold) ==
  LET Keep(d) == d.similarity >= threshold IN SelectSeq(docs, Keep)

\* STEP 6 (and the same filter of fallbackSearch):
\* keywords.some(keyword => text.includes(keyword)) on the lowercased text
contentRelevant(docs, keywords) ==
  LET Keep(d) ==
        \/ Len(keywords) = 0
        \/ LET text == toLowerCase(Corpus[d.id].title \o <<" ">> \o Corpus[d.id].content)
           IN \E k \in 1..Len(keywords) : includes(text, keywords[k])
  IN SelectSeq(docs, Keep)

\* STEP 7
uniqueResults(docs) == dedupByTitle(docs, {})

\* STEP 7.5: uniqueResults.filter(doc => !isGenericPage(doc.title, doc.content))
qualityResults(docs) ==
  LET Keep(d) == ~isGenericPage(Corpus[d.id].title, Corpus[d.id].content)
  IN SelectSeq(docs, Keep)

\* STEPS 2-7.5 on the rows of the vector lookup
hybridPipeline(vectorResults, queryText, threshold, currentYear) ==
  LET keywords == keywordsFor(queryText)
  IN qualityResults(uniqueResults(contentRelevant(
       aboveThreshold(sortBySimilarity(hybridResults(vectorResults, keywords, currentYear)),
                      threshold),
       keywords)))

\* const keywordsForBM25 = keywords.length > 0 ? keywords.join(' ') : queryText
keywordsForBM25(queryText) ==
  IF Len(keywordsFor(queryText)) > 0 THEN join(keywordsFor(queryText), <<" ">>) ELSE queryText

\* Math.max(...keywordResults.map(d => d.similarity))
RECURSIVE maxSimilarity(_)
maxSimilarity(rows) ==
  IF Len(rows) = 1 THEN rows[1].similarity
  ELSE Max(rows[1].similarity, maxSimilarity(Tail(rows)))

\* normalizedScore without the 0.5 floor: the raw score only rescaled to 0.9
normalizedScoreNoFloor(rawScore, maxBM25Score) ==
  IF maxBM25Score > 0
  THEN (Hundredths(90) * rawScore) \div maxBM25Score
  ELSE Hundredths(70)

\* normalizedScore of the BM25 fallback
normalizedScore(rawScore, maxBM25Score) ==
  IF maxBM25Score > 0
  THEN Hundredths(50) + (Hundredths(40) * rawScore) \div maxBM25Score
  ELSE Hundredths(70)

bm25Results(keywordResults) ==
  [i \in 1..Len(keywordResults) |->
     LET n == normalizedScore(keywordResults[i].similarity, maxSimilarity(keywordResults))
     IN [ id |-> keywordResults[i].id, similarity |-> n,
          vectorScore |-> 0, keywordScore |-> n ] ]

\* uniqueBM25.slice(0, limit)
topBM25(keywordResults, limit) ==
  slice(dedupByTitle(bm25Results(keywordResults), {}), limit)

(***************************************************************************)
(* fallbackSearch: the client-side scan                                    *)
(***************************************************************************)
\* the for loop over rawDocuments: a row whose embedding makes
\* cosineSimilarity throw is skipped, a row below the threshold is not pushed
RECURSIVE allDocs(_, _, _, _)
allDocs(rawDocuments, queryEmbedding, keywords, threshold) ==
  IF rawDocuments = <<>> THEN <<>>
  ELSE LET id  == Head(rawDocuments)
           doc == Corpus[id]
           rest == allDocs(Tail(rawDocuments), queryEmbedding, keywords, threshold)
       IN IF cosineThrows(queryEmbedding, doc.embeddings) THEN rest
          ELSE LET vectorScore == cosineSimilarity(queryEmbedding, doc.embeddings)
                   keywordScore == IF Len(keywords) > 0
                                   THEN keywordMatchScore(doc, keywords) ELSE 0
                   score == fallbackHybridScore(vectorScore, keywordScore)
               IN IF score >= threshold
                  THEN <<[ id |-> id, similarity |-> score,
                           vectorScore |-> NoScore, keywordScore |-> NoScore ]>> \o rest
                  ELSE rest

fallbackSearch(rawDocuments, queryEmbedding, limit, threshold, queryText) ==
  LET keywords == keywordsFor(queryText)
      relevant == contentRelevant(
                    allDocs(rawDocuments, queryEmbedding, keywords, threshold), keywords)
      uniqueDocs == dedupByTitle(relevant, {})
  IN slice(sortBySimilarity(uniqueDocs), limit)

(***************************************************************************)
(* State                                                                   *)
(***************************************************************************)
VARIABLES
  db,              \* ids of the rows of the documents table
  currentYear,     \* the year new Date() reports
  pc,              \* position of the running searchDocuments call
  args,            \* its arguments
  rpcArgs,         \* arguments of its match_documents request
  rpcResp,         \* kind of answer match_documents gave
  vectorResults,   \* rows match_documents delivered, while STEPS 2-8 use them
  selResp,         \* kind of answer the fallback select gave
  rawDocuments,    \* ids the fallback select delivered, in order
  bm25Args,        \* arguments of the search_keyword_documents request
  bm25Resp,        \* kind of answer search_keyword_documents gave
  keywordResults,  \* rows search_keyword_documents delivered
  path,            \* stage that produced the outcome
  outcome,         \* "returned" or "thrown"
  result,          \* the list returned
  chatPc,          \* position of the chat request (POST of the chat route)
  message,         \* its message
  hasHistory,      \* whether its history is a non-empty array
  stPc,            \* position of its isSmallTalk call
  stResp,          \* kind of answer the small-talk request gave
  smallTalk,       \* what isSmallTalk resolved to
  spPc,            \* position of its correctSpelling call
  spResp,          \* how correctSpelling came to its result
  spellReply,      \* content of the spell-check reply
  correctedMessage,\* what correctSpelling resolved to
  rewriteResp,     \* kind of answer the rewrite request gave
  rewriteReply,    \* content of the rewrite reply
  searchQuery,     \* the query handed to embedding and retrieval
  isListNamesQuery,
  embResp,         \* kind of answer the embedding request gave
  relevantDocs,    \* documents retrieved for the request
  sources,         \* documents shown as sources
  perplexityKey,   \* process.env.PERPLEXITY_API_KEY as the request found it
  webResp,         \* what became of the web search of the request
  embeddingCache,  \* lib/embeddings: entries in insertion order
  spellCache,      \* lib/embeddings: cache key -> corrected text
  spellSetAt,      \* history: Date.now() at the spellCache.set of each entry
  now,             \* Date.now()
  fnPc,            \* a single function applied on its own: which, or "done"
  fnInput,         \* its argument
  fnOutput         \* its result

envVars == << db, currentYear >>

searchVars == << pc, args, rpcArgs, rpcResp, vectorResults, selResp, rawDocuments,
                 bm25Args, bm25Resp, keywordResults, path, outcome, result >>

chatVars == << chatPc, message, hasHistory, stPc, stResp, smallTalk, spPc, spResp,
               spellReply, correctedMessage, rewriteResp, rewriteReply, searchQuery,
               isListNamesQuery, embResp, relevantDocs, sources, perplexityKey, webResp >>

cacheVars == << embeddingCache, spellCache, spellSetAt, now >>

fnVars == << fnPc, fnInput, fnOutput >>

vars == << envVars, searchVars, chatVars, cacheVars, fnVars >>

NoArgs == [queryEmbedding |-> <<>>, limit |-> 0, threshold |-> 0, queryText |-> <<>>]
NoRpcArgs == [match_threshold |-> 0, match_count |-> 0]
NoBm25Args == [query_text |-> <<>>, match_count |-> 0]

\* the process before its first request
Idle ==
  /\ db \in Fixtures
  /\ currentYear \in CurrentYears
  /\ pc = "idle"
  /\ args = NoArgs
  /\ rpcArgs = NoRpcArgs
  /\ rpcResp = "none"
  /\ vectorResults = <<>>
  /\ selResp = "none"
  /\ rawDocuments = <<>>
  /\ bm25Args = NoBm25Args
  /\ bm25Resp = "none"
  /\ keywordResults = <<>>
  /\ path = "none"
  /\ outcome = "none"
  /\ result = <<>>
  /\ chatPc = "idle"
  /\ message = <<>>
  /\ hasHistory = FALSE
  /\ stPc = "idle"
  /\ stResp = "none"
  /\ smallTalk = FALSE
  /\ spPc = "idle"
  /\ spResp = "none"
  /\ spellReply = <<>>
  /\ correctedMessage = <<>>
  /\ rewriteResp = "none"
  /\ rewriteReply = <<>>
  /\ searchQuery = <<>>
  /\ isListNamesQuery = FALSE
  /\ embResp = "none"
  /\ relevantDocs = <<>>
  /\ sources = <<>>
  /\ perplexityKey = FALSE
  /\ webResp = "none"
  /\ embeddingCache = <<>>
  /\ spellCache = <<>>
  /\ spellSetAt = <<>>
  /\ now = 0

Init ==
  /\ Idle
  /\ fnPc = "none"
  /\ fnInput = <<>>
  /\ fnOutput = <<>>

\* searchDocuments up to its first await: supabase.rpc('match_documents', ...)
StartSearch(queryEmbedding, limit, threshold, queryText) ==
  /\ pc' = "rpc"
  /\ args' = [queryEmbedding |-> queryEmbedding, limit |-> limit,
              threshold |-> threshold, queryText |-> queryText]
  /\ rpcArgs' = [match_threshold |-> vectorThreshold(threshold),
                 match_count |-> limit * 20]
  /\ rpcResp' = "none"
  /\ vectorResults' = <<>>
  /\ selResp' = "none"
  /\ rawDocuments' = <<>>
  /\ bm25Args' = NoBm25Args
  /\ bm25Resp' = "none"
  /\ keywordResults' = <<>>
  /\ path' = "none"
  /\ outcome' = "none"
  /\ result' = <<>>

\* the search route and the other direct callers of searchDocuments
SearchCall ==
  /\ pc = "idle"
  /\ chatPc = "idle"
  /\ fnPc = "none"
  /\ \E e \in QueryEmbeddings, l \in Limits, t \in Thresholds, q \in QueryTexts :
       StartSearch(e, l, t, q)
  /\ UNCHANGED << envVars, fnVars, chatVars, cacheVars >>

\* the call is over: nothing of it is left but what the caller took
EndSearch ==
  /\ pc' = "idle"
  /\ args' = NoArgs
  /\ rpcArgs' = NoRpcArgs
  /\ rpcResp' = "none"
  /\ vectorResults' = <<>>
  /\ selResp' = "none"
  /\ rawDocuments' = <<>>
  /\ bm25Args' = NoBm25Args
  /\ bm25Resp' = "none"
  /\ keywordResults' = <<>>
  /\ path' = "none"
  /\ outcome' = "none"
  /\ result' = <<>>

Return(p, list) ==
  /\ pc' = "done"
  /\ path' = p
  /\ outcome' = "returned"
  /\ result' = list

Throw(p) ==
  /\ pc' = "done"
  /\ path' = p
  /\ outcome' = "thrown"
  /\ result' = <<>>

\* match_documents answers with an error naming the function: fallbackSearch
\* starts and awaits its select
RpcNotFound ==
  /\ pc = "rpc"
  /\ rpcResp' = "notfound"
  /\ pc' = "select"
  /\ UNCHANGED << envVars, fnVars, chatVars, cacheVars, args, rpcArgs, vectorResults, selResp,
                  rawDocuments, bm25Args, bm25Resp, keywordResults, path, outcome, result >>

\* match_documents answers with another error, or the request itself rejects:
\* the error is logged and rethrown
RpcError ==
  /\ pc = "rpc"
  /\ \E kind \in {"error", "throws"} : rpcResp' = kind
  /\ Throw("rpc")
  /\ UNCHANGED << envVars, fnVars, chatVars, cacheVars, args, rpcArgs, vectorResults, selResp,
                  rawDocuments, bm25Args, bm25Resp, keywordResults >>

\* match_documents delivers rows: STEPS 2-7.5, then the return or the BM25 request
RpcData ==
  /\ pc = "rpc"
  /\ \E rows \in RowSeqs(db, VecScores, MaxRows) :
       /\ DistinctIds(rows)
       /\ rpcResp' = "data"
       /\ vectorResults' = rows
       /\ IF Len(rows) = 0
          THEN Return("hybrid", <<>>) /\ UNCHANGED bm25Args
          ELSE LET quality == hybridPipeline(rows, args.queryText, args.threshold,
                                             currentYear)
               IN IF Len(quality) = 0 /\ args.queryText # <<>>
                  THEN /\ pc' = "bm25"
                       /\ bm25Args' = [query_text |-> keywordsForBM25(args.queryText),
                                       match_count |-> args.limit * 2]
                       /\ UNCHANGED << path, outcome, result >>
                  ELSE Return("hybrid", slice(quality, args.limit)) /\ UNCHANGED bm25Args
  /\ UNCHANGED << envVars, fnVars, chatVars, cacheVars, args, rpcArgs, selResp, rawDocuments,
                  bm25Resp, keywordResults >>

\* the select of fallbackSearch answers with an error or without rows
SelectEmpty ==
  /\ pc = "select"
  /\ \E kind \in {"error", "empty"} : selResp' = kind
  /\ Return("fallback", <<>>)
  /\ UNCHANGED << envVars, fnVars, chatVars, cacheVars, args, rpcArgs, rpcResp, vectorResults,
                  rawDocuments, bm25Args, bm25Resp, keywordResults >>

\* the select of fallbackSearch rejects: searchDocuments logs and rethrows
SelectThrows ==
  /\ pc = "select"
  /\ selResp' = "throws"
  /\ Throw("fallback")
  /\ UNCHANGED << envVars, fnVars, chatVars, cacheVars, args, rpcArgs, rpcResp, vectorResults,
                  rawDocuments, bm25Args, bm25Resp, keywordResults >>

\* the select of fallbackSearch delivers the table: the scan runs and returns
SelectData ==
  /\ pc = "select"
  /\ db # {}
  /\ \E order \in TableOrders(db) :
       LET ids == [i \in 1..Len(order) |-> order[i].id]
       IN /\ selResp' = "data"
          /\ rawDocuments' = ids
          /\ Return("fallback", fallbackSearch(ids, args.queryEmbedding, args.limit,
                                               args.threshold, args.queryText))
  /\ UNCHANGED << envVars, fnVars, chatVars, cacheVars, args, rpcArgs, rpcResp, vectorResults,
                  bm25Args, bm25Resp, keywordResults >>

\* search_keyword_documents answers with an error (function missing or not),
\* or the request rejects: both end in an empty list
Bm25Error ==
  /\ pc = "bm25"
  /\ \E kind \in {"notfound", "error", "throws"} : bm25Resp' = kind
  /\ Return("bm25", <<>>)
  /\ vectorResults' = <<>>
  /\ UNCHANGED << envVars, fnVars, chatVars, cacheVars, args, rpcArgs, rpcResp,
                  selResp, rawDocuments, bm25Args, keywordResults >>

\* search_keyword_documents delivers rows: normalise, deduplicate, cut
Bm25Data ==
  /\ pc = "bm25"
  /\ \E rows \in RowSeqs(db, Bm25Scores, MaxRows) :
       /\ DistinctIds(rows)
       /\ bm25Resp' = "data"
       /\ keywordResults' = rows
       /\ IF Len(rows) > 0
          THEN Return("bm25", topBM25(rows, args.limit))
          ELSE Return("bm25", <<>>)
  /\ vectorResults' = <<>>
  /\ UNCHANGED << envVars, fnVars, chatVars, cacheVars, args, rpcArgs, rpcResp,
                  selResp, rawDocuments, bm25Args >>

(***************************************************************************)
(* lib/embeddings: caches, correctSpelling, generateEmbedding              *)
(***************************************************************************)
\* const CACHE_TTL = 60 * 60 * 1000
CACHE_TTL == 60 * 60 * 1000

\* text.replace(/\s+/g, ' ')
RECURSIVE collapseSpaces(_, _)
collapseSpaces(s, i) ==
  IF i > Len(s) THEN <<>>
  ELSE IF IsSpace(s[i])
       THEN (IF i > 1 /\ IsSpace(s[i - 1]) THEN <<>> ELSE <<" ">>) \o collapseSpaces(s, i + 1)
  ELSE <<s[i]>> \o collapseSpaces(s, i + 1)

\* normalizeQuery
normalizeQuery(text) == collapseSpaces(trim(toLowerCase(text)), 1)

\* index of the entry of key in the embedding cache, 0 when there is none
cacheIndex(cache, key) ==
  IF \E i \in 1..Len(cache) : cache[i].key = key
  THEN CHOOSE i \in 1..Len(cache) : cache[i].key = key
  ELSE 0

\* getCachedEmbedding: whether the lookup of text is a hit at time t
cacheHit(cache, text, t) ==
  LET i == cacheIndex(cache, normalizeQuery(text))
  IN i > 0 /\ t - cache[i].timestamp < CACHE_TTL

\* getCachedEmbedding: the cache after the lookup (an expired entry is deleted)
cacheAfterGet(cache, text, t) ==
  LET i == cacheIndex(cache, normalizeQuery(text))
  IN IF i > 0 /\ ~(t - cache[i].timestamp < CACHE_TTL)
     THEN SubSeq(cache, 1, i - 1) \o SubSeq(cache, i + 1, Len(cache))
     ELSE cache

\* cacheEmbedding: Map.set keeps the position of an existing key; beyond 500
\* entries the first key is deleted
cacheEmbedding(cache, text, embedding, t) ==
  LET key == normalizeQuery(text)
      entry == [key |-> key, embedding |-> embedding, timestamp |-> t]
      i == cacheIndex(cache, key)
      set == IF i > 0 THEN [cache EXCEPT ![i] = entry] ELSE Append(cache, entry)
  IN IF Len(set) > 500 THEN Tail(set) ELSE set

\* spellCache.has / get / set on a sequence of <<key, value>> pairs
spellIndex(cache, key) ==
  IF \E i \in 1..Len(cache) : cache[i][1] = key
  THEN CHOOSE i \in 1..Len(cache) : cache[i][1] = key
  ELSE 0

spellSet(cache, key, value) ==
  IF spellIndex(cache, key) > 0
  THEN [cache EXCEPT ![spellIndex(cache, key)] = <<key, value>>]
  ELSE Append(cache, <<key, value>>)

\* query.split(' ').length
wordCount(query) == Len(splitChar(query, " ", 1, <<>>))

\* correctSpelling returns before any request: short query, long query
spellSkips(query) == Len(query) < 3 \/ wordCount(query) > 12

\* const cacheKey = query.toLowerCase().trim()
spellKey(query) == trim(toLowerCase(query))

(***************************************************************************)
(* Chat route: helpers of POST                                             *)
(***************************************************************************)
kthKeywords == <<
  <<"k","t","h">>, <<"r","o","y","a","l"," ","i","n","s","t","i","t","u","t","e"," ","o","f"," ","t","e","c","h","n","o","l","o","g","y">>, <<"a","t"," ","k","t","h">>, <<"k","t","h"," ","r","e","s","e","a","r","c","h">>, <<"k","t","h"," ","d","o","i","n","g">>,
  <<"k","t","h"," ","w","o","r","k","i","n","g">>, <<"s","t","o","c","k","h","o","l","m"," ","u","n","i","v","e","r","s","i","t","y">> >>

isKTHSpecificQuery(msg) ==
  \E i \in 1..Len(kthKeywords) : includes(toLowerCase(msg), kthKeywords[i])

substantiveKeywords == <<
  <<"s","h","o","w">>, <<"t","e","l","l">>, <<"w","h","a","t">>, <<"w","h","o">>, <<"h","o","w">>, <<"p","a","p","e","r","s">>, <<"r","e","s","e","a","r","c","h","e","r","s">>, <<"p","u","b","s">>, <<"m","o","r","e">>,
  <<"a","n","o","t","h","e","r">>, <<"e","x","p","l","a","i","n">> >>

\* /^(thanks?|thank\s+you)$/
isThanks(s) ==
  \/ s \in { <<"t","h","a","n","k">>, <<"t","h","a","n","k","s">> }
  \/ /\ startsWith(s, <<"t","h","a","n","k">>) /\ endsWith(s, <<"y","o","u">>)
     /\ Len(s) > 8
     /\ \A j \in 6..(Len(s) - 3) : IsSpace(s[j])

\* /non[- ]?climate/i
matchesNonClimate(s) ==
  includes(s, <<"n","o","n","c","l","i","m","a","t","e">>) \/ includes(s, <<"n","o","n","-","c","l","i","m","a","t","e">>) \/ includes(s, <<"n","o","n"," ","c","l","i","m","a","t","e">>)

\* /^i (have|want).*(non|different)/i ('.' does not cross a line terminator)
matchesIHaveNon(s) ==
  \E p \in { <<"i"," ","h","a","v","e">>, <<"i"," ","w","a","n","t">> } :
    /\ startsWith(s, p)
    /\ \E w \in { <<"n","o","n">>, <<"d","i","f","f","e","r","e","n","t">> } :
         \E i \in Len(p)..(Len(s) - Len(w)) :
           /\ SubSeq(s, i + 1, i + Len(w)) = w
           /\ \A j \in (Len(p) + 1)..i : s[j] \notin {"\n", "\r"}

\* the catch branch of isSmallTalk
smallTalkFallback(msg) ==
  LET lowerMessage == trim(toLowerCase(msg))
  IN IF \E i \in 1..Len(substantiveKeywords) : includes(lowerMessage, substantiveKeywords[i])
     THEN FALSE
     ELSE \/ lowerMessage \in { <<"h","i">>, <<"h","e","l","l","o">>, <<"h","e","y">> }
          \/ lowerMessage \in { <<"b","y","e">>, <<"g","o","o","d","b","y","e">> }
          \/ isThanks(lowerMessage)
          \/ matchesNonClimate(lowerMessage)
          \/ matchesIHaveNon(lowerMessage)

IsQuote(c) == c \in {"\"", "'"}

\* rewrittenQuery.replace(/^["']+|["']+$/g, '')
stripWrappingQuotes(s) ==
  IF \A i \in 1..Len(s) : IsQuote(s[i]) THEN <<>>
  ELSE LET first == CHOOSE i \in 1..Len(s) :
                      ~IsQuote(s[i]) /\ \A j \in 1..(i - 1) : IsQuote(s[j])
           last  == CHOOSE i \in 1..Len(s) :
                      ~IsQuote(s[i]) /\ \A j \in (i + 1)..Len(s) : IsQuote(s[j])
       IN SubSeq(s, first, last)

\* rewrittenQuery.replace(/\\["']/g, '')
RECURSIVE stripEscapedQuotes(_, _)
stripEscapedQuotes(s, i) ==
  IF i > Len(s) THEN <<>>
  ELSE IF s[i] = "\\" /\ i < Len(s) /\ IsQuote(s[i + 1]) THEN stripEscapedQuotes(s, i + 2)
  ELSE <<s[i]>> \o stripEscapedQuotes(s, i + 1)

\* the sanitising without the removal of the wrapping quotes
sanitizeRewriteKeepsQuotes(content) ==
  trim(stripEscapedQuotes(trim(content), 1))

\* the sanitising of the rewrite reply: trim, both replaces, trim
sanitizeRewrite(content) ==
  trim(stripEscapedQuotes(stripWrappingQuotes(trim(content)), 1))

\* the words of /\b(researchers?|authors?|scientists?|professors?|names?|people|team|groups?)\b/i
listNamesWords == {
  <<"r","e","s","e","a","r","c","h","e","r">>, <<"r","e","s","e","a","r","c","h","e","r","s">>, <<"a","u","t","h","o","r">>, <<"a","u","t","h","o","r","s">>, <<"s","c","i","e","n","t","i","s","t">>, <<"s","c","i","e","n","t","i","s","t","s">>,
  <<"p","r","o","f","e","s","s","o","r">>, <<"p","r","o","f","e","s","s","o","r","s">>, <<"n","a","m","e">>, <<"n","a","m","e","s">>, <<"p","e","o","p","l","e">>, <<"t","e","a","m">>, <<"g","r","o","u","p">>, <<"g","r","o","u","p","s">> }

\* the words of /\b(names?|of|the|researchers?|authors?|at|kth|professors?|scientists?|team|group|people|who|working|on|in)\b/gi
relationalWords == {
  <<"n","a","m","e">>, <<"n","a","m","e","s">>, <<"o","f">>, <<"t","h","e">>, <<"r","e","s","e","a","r","c","h","e","r">>, <<"r","e","s","e","a","r","c","h","e","r","s">>, <<"a","u","t","h","o","r">>, <<"a","u","t","h","o","r","s">>,
  <<"a","t">>, <<"k","t","h">>, <<"p","r","o","f","e","s","s","o","r">>, <<"p","r","o","f","e","s","s","o","r","s">>, <<"s","c","i","e","n","t","i","s","t">>, <<"s","c","i","e","n","t","i","s","t","s">>, <<"t","e","a","m">>,
  <<"g","r","o","u","p">>, <<"p","e","o","p","l","e">>, <<"w","h","o">>, <<"w","o","r","k","i","n","g">>, <<"o","n">>, <<"i","n">> }

\* the maximal runs of \w characters of s: between two \b only a whole run
\* can match an alternation of plain words
RECURSIVE wordRuns(_, _, _)
wordRuns(s, i, cur) ==
  IF i > Len(s) THEN (IF cur = <<>> THEN <<>> ELSE <<cur>>)
  ELSE IF IsWordChar(s[i]) THEN wordRuns(s, i + 1, Append(cur, s[i]))
  ELSE (IF cur = <<>> THEN <<>> ELSE <<cur>>) \o wordRuns(s, i + 1, <<>>)

\* /\b(w1|w2|...)\b/i.test(s)
isListNamesPattern(s) ==
  \E i \in 1..Len(wordRuns(s, 1, <<>>)) : toLowerCase(wordRuns(s, 1, <<>>)[i]) \in listNamesWords

\* s.replace(/\b(w1|w2|...)\b/gi, ' ')
RECURSIVE replaceWords(_, _, _, _)
replaceWords(s, words, i, cur) ==
  LET flush == IF toLowerCase(cur) \in words THEN <<" ">> ELSE cur
  IN IF i > Len(s) THEN flush
     ELSE IF IsWordChar(s[i]) THEN replaceWords(s, words, i + 1, Append(cur, s[i]))
     ELSE flush \o <<s[i]>> \o replaceWords(s, words, i + 1, <<>>)

LongerThan3(word) == Len(word) > 3

topicWords(query) ==
  SelectSeq(splitSpaces(trim(replaceWords(query, relationalWords, 1, <<>>)), 1, <<>>),
            LongerThan3)

\* /[A-Z][a-z]+[A-Z]/.test(word)
isCamelCase(word) ==
  \E i, j \in 1..Len(word) :
    /\ i + 1 < j
    /\ word[i] \in UpperSet /\ word[j] \in UpperSet
    /\ \A k \in (i + 1)..(j - 1) : word[k] \in LowerSet

isTechnicalTerm(word) ==
  \/ (Len(word) >= 3 /\ \A i \in 1..Len(word) : word[i] \in UpperSet)
  \/ Len(word) > 6
  \/ isCamelCase(word)

finalQuery(query) ==
  LET technicalTerms == SelectSeq(topicWords(query), isTechnicalTerm)
  IN IF Len(technicalTerms) > 0 THEN join(technicalTerms, <<" ">>)
     ELSE join(slice(topicWords(query), 3), <<" ">>)

\* the rewrite block without the KEEP_ORIGINAL test: the literal is taken
\* for a rewritten query
rewrittenSearchQueryNoKeep(searchMessage, content) ==
  LET rewrittenQuery == sanitizeRewrite(content)
  IN IF rewrittenQuery # <<>> /\ Len(rewrittenQuery) > 3
     THEN IF isListNamesPattern(rewrittenQuery) /\ Len(finalQuery(rewrittenQuery)) > 2
          THEN finalQuery(rewrittenQuery)
          ELSE rewrittenQuery
     ELSE searchMessage

\* searchQuery after a rewrite reply with the given content (response.ok)
rewrittenSearchQuery(searchMessage, content) ==
  LET rewrittenQuery == sanitizeRewrite(content)
  IN IF rewrittenQuery = <<"K","E","E","P","_","O","R","I","G","I","N","A","L">> THEN searchMessage
     ELSE IF rewrittenQuery # <<>> /\ Len(rewrittenQuery) > 3
          THEN IF isListNamesPattern(rewrittenQuery) /\ Len(finalQuery(rewrittenQuery)) > 2
               THEN finalQuery(rewrittenQuery)
               ELSE rewrittenQuery
     ELSE searchMessage

rewrittenIsListNames(content) ==
  LET rewrittenQuery == sanitizeRewrite(content)
  IN /\ rewrittenQuery # <<"K","E","E","P","_","O","R","I","G","I","N","A","L">>
     /\ Len(rewrittenQuery) > 3
     /\ isListNamesPattern(rewrittenQuery)

\* SOURCE VALIDATION of POST
sourcesToShow(docs) ==
  LET Quality(d) == d.similarity >= Hundredths(55)
      Loose(d) == d.similarity >= Hundredths(45)
      qualitySources == SelectSeq(docs, Quality)
  IN IF Len(qualitySources) > 0 THEN slice(qualitySources, 5)
     ELSE slice(SelectSeq(docs, Loose), 3)

(***************************************************************************)
(* Chat route: the web search decision and the merge of the sources        *)
(***************************************************************************)
\* /\b(phrase)\b/.test(m) for a phrase that begins and ends with a word character
matchesPhrase(m, phrase) ==
  \E i \in 0..(Len(m) - Len(phrase)) :
    /\ SubSeq(m, i + 1, i + Len(phrase)) = phrase
    /\ (i = 0 \/ ~IsWordChar(m[i]))
    /\ (i + Len(phrase) = Len(m) \/ ~IsWordChar(m[i + Len(phrase) + 1]))

explicitOutsidePhrases == {
  <<"b","e","y","o","n","d"," ","k","t","h">>, <<"o","u","t","s","i","d","e"," ","k","t","h">>, <<"o","u","t","s","i","d","e"," ","o","f"," ","k","t","h">>, <<"n","o","t"," ","k","t","h">>, <<"g","l","o","b","a","l">>, <<"w","o","r","l","d","w","i","d","e">>,
  <<"i","n","t","e","r","n","a","t","i","o","n","a","l">>, <<"t","e","c","h"," ","g","i","a","n","t","s">>, <<"i","n","v","e","s","t","o","r","s">>, <<"s","t","a","r","t","u","p","s">> }

timeSensitivePhrases == {
  <<"2","0","2","3">>, <<"2","0","2","4">>, <<"2","0","2","5">>, <<"2","0","2","6">>, <<"2","0","2","7">>, <<"2","0","2","8">>, <<"2","0","2","9">>, <<"l","a","t","e","s","t">>, <<"r","e","c","e","n","t">>,
  <<"t","o","d","a","y">>, <<"c","u","r","r","e","n","t">>, <<"n","o","w">>, <<"f","u","n","d","i","n","g">>, <<"r","a","i","s","e","d">>, <<"v","a","l","u","a","t","i","o","n">>, <<"s","e","r","i","e","s">>, <<"r","o","u","n","d">>,
  <<"i","n","v","e","s","t","m","e","n","t">>, <<"i","n","v","e","s","t","m","e","n","t","s">> }

shouldUseWebSearch(msg, isKthQuery, kthSourceCount, bestKthScore, kthWeakByKeyword) ==
  LET m == toLowerCase(msg)
      explicitOutside == \E p \in explicitOutsidePhrases : matchesPhrase(m, p)
      timeSensitive == \E p \in timeSensitivePhrases : matchesPhrase(m, p)
      kthWeak == isKthQuery /\ ( \/ kthSourceCount < 3
                                 \/ bestKthScore < Hundredths(60)
                                 \/ kthWeakByKeyword )
  IN explicitOutside \/ timeSensitive \/ kthWeak \/ ~isKthQuery

hardStop == {
  <<"w","h","a","t">>, <<"w","h","y">>, <<"h","o","w">>, <<"w","h","o">>, <<"w","h","e","n">>, <<"w","h","e","r","e">>, <<"w","h","i","c","h">>,
  <<"t","e","l","l">>, <<"s","h","o","w">>, <<"f","i","n","d">>, <<"l","o","o","k">>, <<"u","p">>, <<"a","b","o","u","t">>, <<"m","o","r","e">>,
  <<"t","h","i","s">>, <<"t","h","a","t">>, <<"t","h","e","s","e">>, <<"t","h","o","s","e">>,
  <<"i","s">>, <<"a","r","e">>, <<"w","a","s">>, <<"w","e","r","e">>, <<"d","o">>, <<"d","o","e","s">>, <<"d","i","d">>,
  <<"i","n">>, <<"o","n">>, <<"a","t">>, <<"f","o","r">>, <<"o","f">>, <<"t","o">>, <<"a","n","d">>, <<"o","r">>,
  <<"t","h","e">>, <<"a">>, <<"a","n">>,
  <<"k","t","h">>, <<"d","o","i","n","g">>, <<"w","o","r","k">>, <<"w","o","r","k","i","n","g">> }

\* the character class [a-z0-9+.-]
IsHardChar(c) == c \in LowerSet \cup DigitSet \cup {"+", ".", "-"}

\* m.split(/[^a-z0-9+.-]+/).filter(Boolean)
RECURSIVE hardRuns(_, _, _)
hardRuns(s, i, cur) ==
  IF i > Len(s) THEN (IF cur = <<>> THEN <<>> ELSE <<cur>>)
  ELSE IF IsHardChar(s[i]) THEN hardRuns(s, i + 1, Append(cur, s[i]))
  ELSE (IF cur = <<>> THEN <<>> ELSE <<cur>>) \o hardRuns(s, i + 1, <<>>)

\* Array.from(new Set(list)): the first occurrence of each element
RECURSIVE uniqueInOrder(_, _)
uniqueInOrder(list, seen) ==
  IF list = <<>> THEN <<>>
  ELSE IF Head(list) \in seen THEN uniqueInOrder(Tail(list), seen)
  ELSE <<Head(list)>> \o uniqueInOrder(Tail(list), seen \cup {Head(list)})

extractHardKeywords(msg) ==
  LET IsCandidate(w) == Len(w) >= 5 /\ w \notin hardStop
  IN slice(uniqueInOrder(SelectSeq(hardRuns(toLowerCase(msg), 1, <<>>), IsCandidate), {}), 5)

mentionsHardKeyword(hardKeywords, docs) ==
  IF Len(hardKeywords) = 0 THEN TRUE
  ELSE \E d \in 1..Len(docs) : \E k \in 1..Len(hardKeywords) :
         includes(toLowerCase(Corpus[docs[d].id].title \o <<"\n">> \o Corpus[docs[d].id].content),
                  hardKeywords[k])

bestKthScore(docs) == IF Len(docs) > 0 THEN maxSimilarity(docs) ELSE 0

\* the citations a web search can deliver
WebUrls == << <<"h","t","t","p","s",":","/","/","e","x","a","m","p","l","e",".","o","r","g","/","a">>, <<"h","t","t","p","s",":","/","/","e","x","a","m","p","l","e",".","o","r","g","/","b">> >>

\* a source built from the n-th citation
webSource(n) == [id |-> 0 - n, similarity |-> NoScore, vectorScore |-> NoScore,
                 keywordScore |-> NoScore]

\* (s.url ?? s.title).toLowerCase(): the rows of the model carry no url, a web
\* source always does
sourceKey(s) == IF s.id < 0 THEN toLowerCase(WebUrls[0 - s.id]) ELSE toLowerCase(TitleOf(s))

\* [...sources, ...webSources].filter(first of each key)
RECURSIVE mergeSources(_, _)
mergeSources(list, seen) ==
  IF list = <<>> THEN <<>>
  ELSE IF sourceKey(Head(list)) \in seen THEN mergeSources(Tail(list), seen)
  ELSE <<Head(list)>> \o mergeSources(Tail(list), seen \cup {sourceKey(Head(list))})

(***************************************************************************)
(* Chat route: the inputs of the model                                     *)
(***************************************************************************)
Messages == { <<"h","i">>, <<"W","h","a","t"," ","i","s"," ","B","E","C","C","S","?">>, <<"s","o","l","a","r"," ","e","n","e","r","g","y"," ","a","t"," ","K","T","H">>, <<"w","h","o"," ","a","r","e"," ","t","h","e","y","?">> }

\* replies of the spell-check model besides the query itself
SpellReplies == { <<>>, <<"s","o","l","a","r"," ","e","n","e","r","g","y">> }

\* replies of the rewrite model
RewriteReplies == { <<"'","K","E","E","P","_","O","R","I","G","I","N","A","L","'">>, <<"'","B","E","C","C","S"," ","r","e","s","e","a","r","c","h","e","r","s"," ","a","t"," ","K","T","H","'">>, <<"C","C","S"," ","g","r","o","u","p","s"," ","a","t"," ","K","T","H">>,
                    <<"'","C","C","S","'">>, <<"s","o","l","a","r"," ","e","n","e","r","g","y">> }

\* citation lists of the web search: numbers of entries of WebUrls
WebCitations == { <<>>, <<1>>, <<1, 2>>, <<1, 1>> }

(***************************************************************************)
(* Chat route: POST, from the request to the building of the prompt        *)
(***************************************************************************)
\* const threshold = isKTHQuery ? 0.45 : 0.40; const maxResults = isKTHQuery ? 5 : 3
chatThreshold(query) == IF isKTHSpecificQuery(query) THEN Hundredths(45) ELSE Hundredths(40)
chatMaxResults(query) == IF isKTHSpecificQuery(query) THEN 5 ELSE 3

\* what isSmallTalk resolves to: an OK reply is compared with SMALL_TALK, a
\* rejected request runs the pattern fallback of the catch branch, a non-OK
\* reply falls through to the final return false
smallTalkResult(msg, kind) ==
  IF kind = "SMALL_TALK" THEN TRUE
  ELSE IF kind = "throws" THEN smallTalkFallback(msg)
  ELSE FALSE

\* correctSpelling with the corrected && test left out: an empty reply is
\* returned as the correction
spellResultNoEmptyTest(query, kind, content) ==
  IF kind = "ok" /\ trim(content) # query THEN trim(content) ELSE query

\* what correctSpelling resolves to once its request has answered: a non-empty
\* reply different from the query, else the query
spellResult(query, kind, content) ==
  IF kind = "ok" /\ trim(content) # <<>> /\ trim(content) # query
  THEN trim(content)
  ELSE query

\* searchQuery after the rewrite block when a failed rewrite leaves it unset
searchQueryAfterRewriteUnset(searchMessage, kind, content) ==
  IF kind = "ok" THEN rewrittenSearchQuery(searchMessage, content) ELSE <<>>

\* searchQuery after the rewrite block: it starts as searchMessage and only an
\* OK reply can replace it
searchQueryAfterRewrite(searchMessage, kind, content) ==
  IF kind = "ok" THEN rewrittenSearchQuery(searchMessage, content) ELSE searchMessage

\* retrieval ends without a searchDocuments call
SkipSearch ==
  /\ chatPc' = "retrieved"
  /\ relevantDocs' = <<>>
  /\ sources' = <<>>
  /\ UNCHANGED searchVars

\* POST from the line after the rewrite block: small talk skips retrieval,
\* otherwise generateEmbedding(searchQuery) answers from the cache or sends
\* its request
BeginRetrieval(query) ==
  /\ searchQuery' = query
  /\ IF smallTalk
     THEN SkipSearch /\ UNCHANGED << embResp, embeddingCache >>
     ELSE IF cacheHit(embeddingCache, query, now)
          THEN /\ embResp' = "cached"
               /\ chatPc' = "search"
               /\ StartSearch(
                    embeddingCache[cacheIndex(embeddingCache, normalizeQuery(query))].embedding,
                    chatMaxResults(query), chatThreshold(query), query)
               /\ UNCHANGED << embeddingCache, relevantDocs, sources >>
          ELSE /\ chatPc' = "embed"
               /\ embeddingCache' = cacheAfterGet(embeddingCache, query, now)
               /\ UNCHANGED << embResp, relevantDocs, sources, searchVars >>

\* POST up to the await of Promise.all([isSmallTalk, correctSpelling]):
\* isSmallTalk sends its request; correctSpelling returns at once for a short
\* or long query or a cached key, and sends its request otherwise
ChatRequest ==
  /\ chatPc = "idle"
  /\ pc = "idle"
  /\ fnPc = "none"
  /\ \E m \in Messages, h \in BOOLEAN :
       /\ message' = m
       /\ hasHistory' = h
       /\ stPc' = "fetch"
       /\ IF spellSkips(m)
          THEN spPc' = "done" /\ spResp' = "skipped" /\ correctedMessage' = m
          ELSE IF spellIndex(spellCache, spellKey(m)) > 0
               THEN /\ spPc' = "done"
                    /\ spResp' = "cached"
                    /\ correctedMessage' = spellCache[spellIndex(spellCache, spellKey(m))][2]
               ELSE spPc' = "fetch" /\ UNCHANGED << spResp, correctedMessage >>
  /\ chatPc' = "normalize"
  /\ UNCHANGED << envVars, fnVars, searchVars, cacheVars, stResp, smallTalk, spellReply,
                  rewriteResp, rewriteReply, searchQuery, isListNamesQuery, embResp,
                  relevantDocs, sources, perplexityKey, webResp >>

\* the small-talk request answers
SmallTalkRespond ==
  /\ stPc = "fetch"
  /\ \E kind \in {"SMALL_TALK", "SUBSTANTIVE", "notok", "throws"} :
       /\ stResp' = kind
       /\ smallTalk' = smallTalkResult(message, kind)
  /\ stPc' = "done"
  /\ UNCHANGED << envVars, fnVars, searchVars, cacheVars, chatPc, message, hasHistory,
                  spPc, spResp, spellReply, correctedMessage, rewriteResp, rewriteReply,
                  searchQuery, isListNamesQuery, embResp, relevantDocs, sources, perplexityKey, webResp >>

\* the spell-check request answers: the result is cached under the cache key
\* and returned
SpellRespond ==
  /\ spPc = "fetch"
  /\ \E kind \in {"ok", "notok", "throws"} :
       \E content \in (IF kind = "ok" THEN SpellReplies \cup {message} ELSE {<<>>}) :
         /\ spResp' = kind
         /\ spellReply' = content
         /\ correctedMessage' = spellResult(message, kind, content)
         /\ spellCache' = spellSet(spellCache, spellKey(message),
                                   spellResult(message, kind, content))
         /\ spellSetAt' = spellSet(spellSetAt, spellKey(message), now)
  /\ spPc' = "done"
  /\ UNCHANGED << envVars, fnVars, searchVars, embeddingCache, now, chatPc, message,
                  hasHistory, stPc, stResp, smallTalk, rewriteResp, rewriteReply,
                  searchQuery, isListNamesQuery, embResp, relevantDocs, sources, perplexityKey, webResp >>

\* POST going on as soon as isSmallTalk has resolved, correctSpelling awaited
\* or not
JoinWithoutSpelling ==
  /\ chatPc = "normalize"
  /\ stPc = "done"
  /\ stResp' = "none"
  /\ IF hasHistory /\ wordCount(correctedMessage) < 15
     THEN /\ chatPc' = "rewrite"
          /\ searchQuery' = correctedMessage
          /\ UNCHANGED << searchVars, embResp, relevantDocs, sources, embeddingCache >>
     ELSE BeginRetrieval(correctedMessage)
  /\ UNCHANGED << envVars, fnVars, spellCache, spellSetAt, now, message, hasHistory, stPc,
                  smallTalk, spPc, spResp, spellReply, correctedMessage, rewriteResp,
                  rewriteReply, isListNamesQuery, perplexityKey, webResp >>

\* Promise.all resolves (the reply of the small-talk request, a local of
\* isSmallTalk, is gone): the rewrite request is sent when there is history
\* and the corrected message has fewer than 15 words, else retrieval begins
Join ==
  /\ chatPc = "normalize"
  /\ stPc = "done"
  /\ spPc = "done"
  /\ stResp' = "none"
  /\ IF hasHistory /\ wordCount(correctedMessage) < 15
     THEN /\ chatPc' = "rewrite"
          /\ searchQuery' = correctedMessage
          /\ UNCHANGED << searchVars, embResp, relevantDocs, sources, embeddingCache >>
     ELSE BeginRetrieval(correctedMessage)
  /\ UNCHANGED << envVars, fnVars, spellCache, spellSetAt, now, message, hasHistory, stPc,
                  smallTalk, spPc, spResp, spellReply, correctedMessage, rewriteResp,
                  rewriteReply, isListNamesQuery, perplexityKey, webResp >>

\* the rewrite request answers: an OK reply is sanitised and may replace the
\* search query; a non-OK reply or a rejected request leaves it; retrieval begins
RewriteRespond ==
  /\ chatPc = "rewrite"
  /\ \E kind \in {"ok", "notok", "throws"} :
       \E content \in (IF kind = "ok" THEN RewriteReplies ELSE {<<>>}) :
         /\ rewriteResp' = kind
         /\ rewriteReply' = content
         /\ isListNamesQuery' = (kind = "ok" /\ rewrittenIsListNames(content))
         /\ BeginRetrieval(searchQueryAfterRewrite(correctedMessage, kind, content))
  /\ UNCHANGED << envVars, fnVars, spellCache, spellSetAt, now, message, hasHistory, stPc, stResp,
                  smallTalk, spPc, spResp, spellReply, correctedMessage, perplexityKey, webResp >>

\* the embedding request answers: an embedding is cached and searchDocuments
\* starts; a non-OK reply, a reply without an embedding or a rejected request
\* makes generateEmbedding throw, POST logs it and skips searchDocuments
EmbedRespond ==
  /\ chatPc = "embed"
  /\ \/ \E e \in QueryEmbeddings :
          /\ embResp' = "ok"
          /\ embeddingCache' = cacheEmbedding(embeddingCache, searchQuery, e, now)
          /\ chatPc' = "search"
          /\ StartSearch(e, chatMaxResults(searchQuery), chatThreshold(searchQuery),
                         searchQuery)
          /\ UNCHANGED << relevantDocs, sources >>
     \/ /\ \E kind \in {"notok", "invalid", "throws"} : embResp' = kind
        /\ SkipSearch
        /\ UNCHANGED embeddingCache
  /\ UNCHANGED << envVars, fnVars, spellCache, spellSetAt, now, message, hasHistory, stPc, stResp,
                  smallTalk, spPc, spResp, spellReply, correctedMessage, rewriteResp,
                  rewriteReply, searchQuery, isListNamesQuery, perplexityKey, webResp >>

\* searchDocuments has returned or thrown: POST takes the list, validates the
\* sources, or logs the error and goes on without documents; the call and its
\* locals are gone
ChatSearchDone ==
  /\ chatPc = "search"
  /\ pc = "done"
  /\ chatPc' = "retrieved"
  /\ relevantDocs' = IF outcome = "returned" THEN result ELSE <<>>
  /\ sources' = IF outcome = "returned" /\ Len(result) > 0 THEN sourcesToShow(result)
                ELSE <<>>
  /\ EndSearch
  /\ UNCHANGED << envVars, fnVars, cacheVars, message, hasHistory, stPc,
                  stResp, smallTalk, spPc, spResp, spellReply, correctedMessage,
                  rewriteResp, rewriteReply, searchQuery, isListNamesQuery, embResp,
                  perplexityKey, webResp >>

\* the guard of the web search block with the !smallTalk test left out
wantsWebSearchAlsoSmallTalk(key) ==
  /\ key
  /\ shouldUseWebSearch(
       correctedMessage, isKTHSpecificQuery(searchQuery), Len(sources),
       bestKthScore(relevantDocs),
       isKTHSpecificQuery(searchQuery)
         /\ ~mentionsHardKeyword(extractHardKeywords(correctedMessage), relevantDocs))

\* the guards of the web search block: not small talk, the key is set, and
\* shouldUseWebSearch(searchMessage, isKTHQuery, sources.length, bestKthScore,
\* kthWeakByKeyword)
wantsWebSearch(key) ==
  /\ ~smallTalk
  /\ key
  /\ shouldUseWebSearch(
       correctedMessage, isKTHSpecificQuery(searchQuery), Len(sources),
       bestKthScore(relevantDocs),
       isKTHSpecificQuery(searchQuery)
         /\ ~mentionsHardKeyword(extractHardKeywords(correctedMessage), relevantDocs))

\* POST after retrieval: webSearch(searchMessage, 5, ...) sends its request
\* (it returns at once for a blank query), or the block is skipped
WebDecide ==
  /\ chatPc = "retrieved"
  /\ \E key \in BOOLEAN :
       /\ perplexityKey' = key
       /\ IF wantsWebSearch(key)
          THEN IF trim(correctedMessage) = <<>>
               THEN /\ webResp' = "blank"
                    /\ sources' = mergeSources(sources, {})
                    /\ chatPc' = "prompt"
               ELSE /\ webResp' = "fetch"
                    /\ chatPc' = "web"
                    /\ UNCHANGED sources
          ELSE /\ webResp' = "skipped"
               /\ chatPc' = "prompt"
               /\ UNCHANGED sources
  /\ UNCHANGED << envVars, fnVars, searchVars, cacheVars, message, hasHistory, stPc,
                  stResp, smallTalk, spPc, spResp, spellReply, correctedMessage,
                  rewriteResp, rewriteReply, searchQuery, isListNamesQuery, embResp,
                  relevantDocs >>

\* the web search answers with its citations, or fails (non-OK reply,
\* rejection, timeout) and yields none; the sources are merged by key
WebRespond ==
  /\ chatPc = "web"
  /\ \E kind \in {"answered", "failed"} :
       \E cites \in (IF kind = "answered" THEN WebCitations ELSE {<<>>}) :
         /\ webResp' = kind
         /\ sources' = mergeSources(
                         sources \o [i \in 1..Len(cites) |-> webSource(cites[i])], {})
  /\ chatPc' = "prompt"
  /\ UNCHANGED << envVars, fnVars, searchVars, cacheVars, message, hasHistory, stPc,
                  stResp, smallTalk, spPc, spResp, spellReply, correctedMessage,
                  rewriteResp, rewriteReply, searchQuery, isListNamesQuery, embResp,
                  relevantDocs, perplexityKey >>

(***************************************************************************)
(* A single function applied on its own                                    *)
(***************************************************************************)
\* the words the query texts below are made of
KeywordTokens == <<
  <<"W","h","a","t">>, <<"i","s">>, <<"B","E","C","C","S">>, <<"d","o","i","n","g">>, <<"a","t">>, <<"K","T","H","?">>, <<"b","e","c","c","s">>, <<"C","c","s">>, <<"A","I">>, <<"t","h","e">>,
  <<"s","o","l","a","r">>, <<"g","o">>, <<"A","B","C","D","E","F","G">>, <<"h","y","d","r","o","g","e","n","-","s","t","o","r","a","g","e">> >>

\* query texts of at most n tokens
RECURSIVE TokenTexts(_)
TokenTexts(n) ==
  IF n = 0 THEN { <<>> }
  ELSE LET shorter == TokenTexts(n - 1)
       IN shorter \cup { (IF t = <<>> THEN <<>> ELSE t \o <<" ">>) \o KeywordTokens[i] :
                           t \in shorter, i \in 1..Len(KeywordTokens) }

\* the query texts extractKeywords is applied to, the sentence of the spec and
\* a text with a repeated word included
KeywordQueries ==
  TokenTexts(MaxWords) \cup { <<"W","h","a","t"," ","i","s"," ","B","E","C","C","S"," ","d","o","i","n","g"," ","a","t"," ","K","T","H","?">>, <<"s","o","l","a","r"," ","s","o","l","a","r"," ","h","y","d","r","o","g","e","n">> }

InitKeywords ==
  /\ Idle
  /\ fnPc = "extractKeywords"
  /\ fnInput \in KeywordQueries
  /\ fnOutput = <<>>

\* extractKeywords(query)
ExtractKeywordsApply ==
  /\ fnPc = "extractKeywords"
  /\ fnOutput' = extractKeywords(fnInput)
  /\ fnPc' = "extractKeywords.done"
  /\ UNCHANGED << envVars, searchVars, chatVars, cacheVars, fnInput >>


\* doc.year of a candidate (0: no year) and new Date().getFullYear() of a call
DocYears == {0} \cup (2005..2030)
CallYears == 2024..2027

InitRecency ==
  /\ Idle
  /\ fnPc = "recencyBoost"
  /\ fnInput \in [docYear : DocYears, currentYear : CallYears]
  /\ fnOutput = 0

\* the recency term of STEP 3 for one candidate
RecencyBoostApply ==
  /\ fnPc = "recencyBoost"
  /\ fnOutput' = recencyBoost(fnInput.docYear, fnInput.currentYear)
  /\ fnPc' = "recencyBoost.done"
  /\ UNCHANGED << envVars, searchVars, chatVars, cacheVars, fnInput >>

\* titles and contents of candidate documents (<<>>: no content)
PageTitles == {
  <<>>, <<"R","e","s","e","a","r","c","h"," ","|"," ","K","T","H">>, <<"B","E","C","C","S"," ","R","e","s","e","a","r","c","h"," ","O","v","e","r","v","i","e","w"," ","|"," ","K","T","H">>,
  <<"E","n","v","i","r","o","n","m","e","n","t"," ","a","n","d"," ","S","u","s","t","a","i","n","a","b","l","e"," ","D","e","v","e","l","o","p","m","e","n","t"," ","a","t"," ","K","T","H"," ","|"," ","K","T","H">>,
  <<"S","c","h","o","o","l"," ","o","f"," ","E","n","e","r","g","y"," ","S","y","s","t","e","m","s"," ","|"," ","K","T","H">>, <<"D","i","v","i","s","i","o","n"," ","o","f"," ","E","n","e","r","g","y"," ","T","e","c","h","n","o","l","o","g","y"," ","|"," ","K","T","H">>,
  <<"E","n","e","r","g","y"," ","|"," ","S","o","l","a","r"," ","p","o","w","e","r"," ","s","y","s","t","e","m","s"," ","|"," ","K","T","H">>, <<"C","l","i","m","a","t","e"," ","A","c","t","i","o","n"," ","|"," ","K","T","H">>,
  <<"S","t","u","d","e","n","t"," ","l","i","f","e"," ","o","n"," ","c","a","m","p","u","s"," ","|"," ","K","T","H">>, <<"C","a","r","b","o","n"," ","c","a","p","t","u","r","e"," ","p","i","l","o","t"," ","p","r","o","j","e","c","t"," ","|","K","T","H">>,
  <<"C","o","n","t","a","c","t"," ","|"," ","K","T","H">>, <<"S","o","l","a","r"," ","E","n","e","r","g","y"," ","S","t","u","d","y">> }
PageContents == { <<>>, <<"s","o","l","a","r"," ","e","n","e","r","g","y">>, Pad }

InitGeneric ==
  /\ Idle
  /\ fnPc = "isGenericPage"
  /\ fnInput \in [title : PageTitles, content : PageContents]
  /\ fnOutput = FALSE

\* isGenericPage(doc.title, doc.content) of STEP 7.5
IsGenericPageApply ==
  /\ fnPc = "isGenericPage"
  /\ fnOutput' = isGenericPage(fnInput.title, fnInput.content)
  /\ fnPc' = "isGenericPage.done"
  /\ UNCHANGED << envVars, searchVars, chatVars, cacheVars, fnInput >>
(***************************************************************************)
(* lib/embeddings: a process serving a sequence of correctSpelling and     *)
(* generateEmbedding calls while the clock advances                        *)
(***************************************************************************)
\* the texts of the calls
CacheQueries == { <<"h","i">>, <<"C","C","S">>, <<"c","c","s">> }

\* Date.now() moves on by half a TTL
ClockAdvance ==
  /\ now < MaxTicks * (CACHE_TTL \div 2)
  /\ now' = now + CACHE_TTL \div 2
  /\ UNCHANGED << envVars, searchVars, chatVars, fnVars, embeddingCache, spellCache,
                  spellSetAt >>

\* one call of correctSpelling, from its first line to its return: the early
\* returns, the cache lookup, else the request, its answer and spellCache.set
CorrectSpellingCall ==
  /\ \E query \in CacheQueries :
       /\ fnInput' = query
       /\ IF spellSkips(query)
          THEN /\ spResp' = "skipped"
               /\ fnOutput' = query
               /\ UNCHANGED << spellReply, spellCache, spellSetAt >>
          ELSE IF spellIndex(spellCache, spellKey(query)) > 0
               THEN /\ spResp' = "cached"
                    /\ fnOutput' = spellCache[spellIndex(spellCache, spellKey(query))][2]
                    /\ UNCHANGED << spellReply, spellCache, spellSetAt >>
               ELSE \E kind \in {"ok", "notok", "throws"} :
                      \E content \in (IF kind = "ok" THEN SpellReplies \cup {query}
                                                     ELSE {<<>>}) :
                        /\ spResp' = kind
                        /\ spellReply' = content
                        /\ fnOutput' = spellResult(query, kind, content)
                        /\ spellCache' = spellSet(spellCache, spellKey(query),
                                                  spellResult(query, kind, content))
                        /\ spellSetAt' = spellSet(spellSetAt, spellKey(query), now)
  /\ fnPc' = "correctSpelling.done"
  /\ UNCHANGED << envVars, searchVars, embeddingCache, now, chatPc, message, hasHistory,
                  stPc, stResp, smallTalk, spPc, correctedMessage, rewriteResp,
                  rewriteReply, searchQuery, isListNamesQuery, embResp, relevantDocs,
                  sources, perplexityKey, webResp >>

\* one call of generateEmbedding, from the cache lookup to its return or throw
GenerateEmbeddingCall ==
  /\ \E text \in CacheQueries :
       /\ fnInput' = text
       /\ IF cacheHit(embeddingCache, text, now)
          THEN /\ embResp' = "cached"
               /\ fnOutput' =
                    embeddingCache[cacheIndex(embeddingCache, normalizeQuery(text))].embedding
               /\ UNCHANGED embeddingCache
          ELSE \/ \E e \in QueryEmbeddings :
                    /\ embResp' = "ok"
                    /\ fnOutput' = e
                    /\ embeddingCache' =
                         cacheEmbedding(cacheAfterGet(embeddingCache, text, now), text, e, now)
               \/ /\ \E kind \in {"notok", "invalid", "throws"} : embResp' = kind
                  /\ fnOutput' = <<>>
                  /\ embeddingCache' = cacheAfterGet(embeddingCache, text, now)
  /\ fnPc' = "generateEmbedding.done"
  /\ UNCHANGED << envVars, searchVars, spellCache, spellSetAt, now, chatPc, message,
                  hasHistory, stPc, stResp, smallTalk, spPc, spResp, spellReply,
                  correctedMessage, rewriteResp, rewriteReply, searchQuery,
                  isListNamesQuery, relevantDocs, sources, perplexityKey, webResp >>
(***************************************************************************)
(* Specifications                                                          *)
(***************************************************************************)
\* a process serving one direct searchDocuments call
Next ==
  \/ SearchCall
  \/ RpcNotFound
  \/ RpcError
  \/ RpcData
  \/ SelectEmpty
  \/ SelectThrows
  \/ SelectData
  \/ Bm25Error
  \/ Bm25Data

Spec == Init /\ [][Next]_vars

\* a process serving one chat request
NextChat ==
  \/ ChatRequest
  \/ SmallTalkRespond
  \/ SpellRespond
  \/ Join
  \/ RewriteRespond
  \/ EmbedRespond
  \/ RpcNotFound
  \/ RpcError
  \/ RpcData
  \/ SelectEmpty
  \/ SelectThrows
  \/ SelectData
  \/ Bm25Error
  \/ Bm25Data
  \/ ChatSearchDone
  \/ WebDecide
  \/ WebRespond

SpecChat == Init /\ [][NextChat]_vars

\* extractKeywords applied to one query text
NextKeywords == ExtractKeywordsApply

SpecKeywords == InitKeywords /\ [][NextKeywords]_vars


\* a process serving calls of the two cached functions of lib/embeddings
NextCache ==
  \/ ClockAdvance
  \/ CorrectSpellingCall
  \/ GenerateEmbeddingCall

\* the calls read no document: one corpus is enough
InitCache == Init /\ db = {}

SpecCache == InitCache /\ [][NextCache]_vars

\* the recency term computed for one document year and one current year
NextRecency == RecencyBoostApply

SpecRecency == InitRecency /\ [][NextRecency]_vars

\* isGenericPage applied to one title and content
NextGeneric == IsGenericPageApply

SpecGeneric == InitGeneric /\ [][NextGeneric]_vars

\* one chat request with the progress the code guarantees: the handler takes
\* its own steps, and the web search ends by itself because webSearch and
\* fetchTitle abort their requests after a timeout; no other provider
\* request has a timeout, so none of the other answers is guaranteed
SpecChatLive ==
  /\ Init
  /\ [][NextChat]_vars
  /\ WF_vars(Join)
  /\ WF_vars(ChatSearchDone)
  /\ WF_vars(WebDecide)
  /\ WF_vars(WebRespond)

\* one chat request all of whose provider requests are answered
SpecChatAnswered ==
  /\ SpecChatLive
  /\ WF_vars(SmallTalkRespond)
  /\ WF_vars(SpellRespond)
  /\ WF_vars(RewriteRespond)
  /\ WF_vars(EmbedRespond)
  /\ WF_vars(RpcNotFound \/ RpcError \/ RpcData)
  /\ WF_vars(SelectEmpty \/ SelectThrows \/ SelectData)
  /\ WF_vars(Bm25Error \/ Bm25Data)
(***************************************************************************)
(* Properties                                                              *)
(***************************************************************************)
Returned == pc = "done" /\ outcome = "returned"

Ids(docs) == [i \in 1..Len(docs) |-> docs[i].id]

\* the fused score of every row the vector lookup delivered
Scored == hybridResults(vectorResults, keywordsFor(args.queryText), currentYear)

\* C1: searchDocuments returns a list, and does not throw, when the vector
\* lookup reports an error other than function-not-found, or when the BM25
\* lookup reports an error or rejects.
C1_ReturnsOnProviderError ==
  (pc = "done" /\ (rpcResp = "error" \/ bm25Resp \in {"notfound", "error", "throws"}))
    => outcome = "returned"

\* C2: the vector lookup is requested with match_threshold =
\* max(threshold - 0.35, 0.10) and match_count = limit * 20 (0.15 for a
\* threshold of 0.5), while the cut on the fused score uses the caller's
\* threshold: nothing below it is returned by the hybrid path, and a single
\* unfiltered candidate at or above it is returned.
C2_ThresholdSeparation ==
  /\ pc # "idle" =>
       /\ rpcArgs.match_count = args.limit * 20
       /\ rpcArgs.match_threshold =
            (IF args.threshold - (35 * Scale) \div 100 >= (10 * Scale) \div 100
             THEN args.threshold - (35 * Scale) \div 100
             ELSE (10 * Scale) \div 100)
       /\ (args.threshold = (50 * Scale) \div 100
             => rpcArgs.match_threshold = (15 * Scale) \div 100)
  /\ (Returned /\ path = "hybrid") =>
       /\ \A i \in 1..Len(result) : result[i].similarity >= args.threshold
       /\ ( /\ Len(vectorResults) = 1
            /\ args.queryText = <<>>
            /\ Scored[1].similarity >= args.threshold
            /\ ~isGenericPage(Corpus[Scored[1].id].title, Corpus[Scored[1].id].content) )
          => Ids(result) = <<Scored[1].id>>

\* C2 witness: a hybrid-path call with threshold 0.5 returned a document while
\* a candidate scoring between the loosened 0.15 and 0.5 was cut
C2_Witness ==
  /\ Returned /\ path = "hybrid"
  /\ args.threshold = (50 * Scale) \div 100
  /\ rpcArgs.match_threshold = (15 * Scale) \div 100
  /\ Len(result) > 0
  /\ \E i \in 1..Len(Scored) :
       /\ Scored[i].similarity >= rpcArgs.match_threshold
       /\ Scored[i].similarity < args.threshold
       /\ \A j \in 1..Len(result) : result[j].id # Scored[i].id

\* C3: the returned list is in non-increasing order of similarity on every
\* path (hybrid, client-side scan, BM25 fallback).
C3_ResultSorted ==
  Returned => \A i, j \in 1..Len(result) :
                i < j => result[i].similarity >= result[j].similarity

\* the scored documents that reach the deduplication stage of the path taken
DedupInput ==
  IF path = "hybrid"
    THEN contentRelevant(aboveThreshold(sortBySimilarity(Scored), args.threshold),
                         keywordsFor(args.queryText))
  ELSE IF path = "fallback"
    THEN contentRelevant(allDocs(rawDocuments, args.queryEmbedding,
                                 keywordsFor(args.queryText), args.threshold),
                         keywordsFor(args.queryText))
  ELSE IF keywordResults # <<>> THEN bm25Results(keywordResults)
  ELSE <<>>

\* C4: on every path the result holds at most one document per title, and
\* the one kept is the highest-scored candidate of that title.
C4_DedupKeepsBest ==
  Returned =>
    /\ \A i, j \in 1..Len(result) : i # j => TitleOf(result[i]) # TitleOf(result[j])
    /\ \A i \in 1..Len(result) : \A c \in 1..Len(DedupInput) :
         TitleOf(DedupInput[c]) = TitleOf(result[i])
           => DedupInput[c].similarity <= result[i].similarity

\* C5: no document whose title is a generic navigation page is returned, on
\* any path.
C5_NoGenericPage ==
  Returned => \A i \in 1..Len(result) : ~isGenericPage(TitleOf(result[i]), <<>>)

\* C6: with keywords extracted, a document above the threshold passes the
\* content filter exactly when a keyword occurs in its title or content
\* case-insensitively; and for "What is BECCS?" the document "BECCS Research
\* Overview" reported with similarity 1.0 is the top hybrid result with
\* similarity >= 0.55.
C6_ContentFilterCaseInsensitive ==
  (rpcResp = "data" /\ (pc = "bm25" \/ path = "hybrid")) =>
    LET keywords == keywordsFor(args.queryText)
        above == aboveThreshold(sortBySimilarity(Scored), args.threshold)
        kept == contentRelevant(above, keywords)
        Occurs(d) ==
          \E k \in 1..Len(keywords) :
            includes(toLowerCase(Corpus[d.id].title \o <<" ">> \o Corpus[d.id].content),
                     toLowerCase(keywords[k]))
    IN /\ Len(keywords) > 0 =>
            \A i \in 1..Len(above) :
              (\E j \in 1..Len(kept) : kept[j].id = above[i].id) <=> Occurs(above[i])
       /\ ( /\ args.queryText = <<"W","h","a","t"," ","i","s"," ","B","E","C","C","S","?">>
            /\ \E i \in 1..Len(vectorResults) :
                 vectorResults[i].id = 1 /\ vectorResults[i].similarity = Scale )
          => /\ Returned /\ path = "hybrid"
             /\ Len(result) > 0
             /\ result[1].id = 1
             /\ result[1].similarity >= (55 * Scale) \div 100

\* C7: whenever the hybrid stages leave no document for a call with query
\* text (also when the vector lookup delivers no row), the BM25 lookup has
\* been requested, keyed on the joined keywords (the raw text when there is
\* none), by the time searchDocuments returns.
C7_Bm25IssuedWhenEmpty ==
  ( /\ pc = "done"
    /\ rpcResp = "data"
    /\ args.queryText # <<>>
    /\ (path = "bm25" \/ Len(result) = 0) )
  => /\ bm25Resp # "none"
     /\ bm25Args.match_count > 0
     /\ bm25Args.query_text =
          (IF extractKeywords(args.queryText) # <<>>
           THEN join(extractKeywords(args.queryText), <<" ">>)
           ELSE args.queryText)

\* C8: in a chat request whose embedding call failed for a message that is
\* not small talk, retrieval is not given up: the BM25 keyword lookup has been
\* requested by the time the retrieval phase ends.
C8_KeywordPathAfterEmbeddingFailure ==
  ( /\ chatPc = "retrieved"
    /\ embResp \in {"notok", "invalid", "throws"}
    /\ ~smallTalk )
  => bm25Resp # "none"

\* the rows match_documents delivers when it reports the true cosine
\* similarities: the rows of the table whose similarity reaches
\* match_threshold, best first
TrueRows(table, queryEmbedding, matchThreshold) ==
  LET Comparable(id) == ~cosineThrows(queryEmbedding, Corpus[id].embeddings)
      ok == SelectSeq(table, Comparable)
      rows == [i \in 1..Len(ok) |->
                 [id |-> ok[i],
                  similarity |-> cosineSimilarity(queryEmbedding, Corpus[ok[i]].embeddings)]]
      Reaches(r) == r.similarity >= matchThreshold
  IN sortBySimilarity(SelectSeq(rows, Reaches))

\* C9: after function-not-found the client-side scan returns the same
\* documents in the same order as the RPC path returns on the same table and
\* query when match_documents reports the true cosine similarities.
C9_FallbackEquivalent ==
  (Returned /\ path = "fallback" /\ selResp = "data") =>
    LET viaRpc == hybridPipeline(
                    TrueRows(rawDocuments, args.queryEmbedding, rpcArgs.match_threshold),
                    args.queryText, args.threshold, currentYear)
    IN Len(viaRpc) > 0 => Ids(result) = Ids(slice(viaRpc, args.limit))

\* C10: every document returned by the hybrid path or the client-side scan
\* has similarity = 0.4 * vectorScore + 0.6 * keywordScore + recencyBoost of
\* its year.
C10_FusedScoreFormula ==
  (Returned /\ path \in {"hybrid", "fallback"}) =>
    \A i \in 1..Len(result) :
      LET doc == Corpus[result[i].id]
          v == IF path = "hybrid" THEN result[i].vectorScore
               ELSE cosineSimilarity(args.queryEmbedding, doc.embeddings)
          k == IF path = "hybrid" THEN result[i].keywordScore
               ELSE IF Len(keywordsFor(args.queryText)) > 0
                    THEN keywordMatchScore(doc, keywordsFor(args.queryText)) ELSE 0
          boost == IF doc.year = 0 THEN 0
                   ELSE IF currentYear - doc.year >= 10 THEN 0
                   ELSE ((10 - (currentYear - doc.year)) * 5 * Scale) \div 1000
      IN result[i].similarity = (4 * v) \div 10 + (6 * k) \div 10 + boost


\* the raw score the BM25 lookup delivered for a returned document
RawScoreOf(id) ==
  keywordResults[CHOOSE i \in 1..Len(keywordResults) : keywordResults[i].id = id].similarity

\* a BM25 batch was delivered and normalised
Bm25Normalized ==
  Returned /\ path = "bm25" /\ bm25Resp = "data" /\ keywordResults # <<>>

\* C11 (as stated): for every non-empty BM25 batch with raw scores >= 0 every
\* normalized similarity lies in [0.5, 0.9] and the document with the batch's
\* maximum raw score is assigned exactly 0.9.
C11_MaxIsAlwaysNineTenths ==
  Bm25Normalized =>
    \A i \in 1..Len(result) :
      /\ result[i].similarity >= (50 * Scale) \div 100
      /\ result[i].similarity <= (90 * Scale) \div 100
      /\ RawScoreOf(result[i].id) = maxSimilarity(keywordResults)
           => result[i].similarity = (90 * Scale) \div 100

\* C11 (amended): every normalized similarity lies in [0.5, 0.9]; the
\* document with the batch's maximum raw score is assigned exactly 0.9 when
\* that maximum is positive, and every document of a batch whose raw scores
\* are all 0 is assigned 0.7.
C11_NormalizedRange ==
  Bm25Normalized =>
    \A i \in 1..Len(result) :
      /\ result[i].similarity >= (50 * Scale) \div 100
      /\ result[i].similarity <= (90 * Scale) \div 100
      /\ ( /\ maxSimilarity(keywordResults) > 0
           /\ RawScoreOf(result[i].id) = maxSimilarity(keywordResults) )
           => result[i].similarity = (90 * Scale) \div 100
      /\ maxSimilarity(keywordResults) = 0
           => result[i].similarity = (70 * Scale) \div 100

\* C11 witness: a batch with a positive maximum came back with its best
\* document at 0.9 and a document of raw score 0 at 0.5
C11_Witness ==
  /\ Bm25Normalized
  /\ \E i, j \in 1..Len(result) :
       /\ RawScoreOf(result[i].id) = maxSimilarity(keywordResults)
       /\ RawScoreOf(result[i].id) > 0
       /\ result[i].similarity = (90 * Scale) \div 100
       /\ RawScoreOf(result[j].id) = 0
       /\ result[j].similarity = (50 * Scale) \div 100

\* the set of the elements of a list
Elements(list) == { list[i] : i \in 1..Len(list) }

\* a token of 2 to 6 upper-case letters, or an allowlisted acronym in any case
IsAcronymToken(w) ==
  \/ (Len(w) >= 2 /\ Len(w) <= 6 /\ \A i \in 1..Len(w) : w[i] \in UpperSet)
  \/ toLowerCase(w) \in knownAcronyms

\* C12: extractKeywords outputs every token of 2-6 upper-case letters and
\* every allowlisted acronym (in any case) in upper case, whatever the
\* stopword list and the length filter say; every other keyword it outputs is
\* no stopword and has at least 3 characters; for "What is BECCS doing at
\* KTH?" the output holds "BECCS" and none of "what", "is", "doing", "at",
\* "kth".
C12_AcronymsPreserved ==
  fnPc = "extractKeywords.done" =>
    LET tokens == wordRuns(fnInput, 1, <<>>)
        out == Elements(fnOutput)
    IN /\ \A i \in 1..Len(tokens) :
            IsAcronymToken(tokens[i]) => toUpperCase(tokens[i]) \in out
       /\ \A k \in out :
            \/ \E i \in 1..Len(tokens) :
                 IsAcronymToken(tokens[i]) /\ k = toUpperCase(tokens[i])
            \/ (k \notin stopWords /\ Len(k) >= 3)
       /\ fnInput = <<"W","h","a","t"," ","i","s"," ","B","E","C","C","S"," ","d","o","i","n","g"," ","a","t"," ","K","T","H","?">> =>
            /\ <<"B","E","C","C","S">> \in out
            /\ out \cap { <<"w","h","a","t">>, <<"i","s">>, <<"d","o","i","n","g">>, <<"a","t">>, <<"k","t","h">> } = {}

\* C12 witness: the sentence of the spec has been processed; its keywords are
\* the two acronyms
C12_Witness ==
  /\ fnPc = "extractKeywords.done"
  /\ fnInput = <<"W","h","a","t"," ","i","s"," ","B","E","C","C","S"," ","d","o","i","n","g"," ","a","t"," ","K","T","H","?">>
  /\ fnOutput = << <<"B","E","C","C","S">>, <<"K","T","H">> >>

\* C13: in a chat request classified small talk neither generateEmbedding,
\* searchDocuments nor webSearch is invoked at any point, and the response
\* carries no source.
C13_SmallTalkSkipsRetrieval ==
  (stPc = "done" /\ smallTalk) =>
    /\ embResp = "none"
    /\ pc = "idle"
    /\ chatPc # "web"
    /\ webResp \in {"none", "skipped"}
    /\ relevantDocs = <<>>
    /\ sources = <<>>

\* C13 witness: the request "hi", classified small talk, has reached the
\* prompt with the web search key set, and no source
C13_Witness ==
  /\ chatPc = "prompt"
  /\ message = <<"h","i">>
  /\ smallTalk
  /\ perplexityKey
  /\ webResp = "skipped"
  /\ sources = <<>>

\* C14: whenever the small-talk request fails (it rejects, or answers with a
\* non-OK status) isSmallTalk applies the deterministic rule: a message
\* holding a substantive trigger word is substantive; otherwise a message
\* that is exactly a greeting, a farewell or thanks is small talk; every
\* other message is substantive.
C14_FallbackRuleOnFailure ==
  (stPc = "done" /\ stResp \in {"notok", "throws"}) =>
    LET m == trim(toLowerCase(message))
        triggers == { <<"s","h","o","w">>, <<"t","e","l","l">>, <<"w","h","a","t">>, <<"w","h","o">>, <<"h","o","w">>, <<"p","a","p","e","r","s">>,
                      <<"r","e","s","e","a","r","c","h","e","r","s">>, <<"p","u","b","s">>, <<"m","o","r","e">>, <<"a","n","o","t","h","e","r">>, <<"e","x","p","l","a","i","n">> }
        pure == { <<"h","i">>, <<"h","e","l","l","o">>, <<"h","e","y">>, <<"b","y","e">>, <<"g","o","o","d","b","y","e">>, <<"t","h","a","n","k">>, <<"t","h","a","n","k","s">>,
                  <<"t","h","a","n","k"," ","y","o","u">> }
    IN smallTalk = ((\A t \in triggers : ~includes(m, t)) /\ m \in pure)

\* the spell-check request of the chat request failed: it rejected, answered
\* with a non-OK status, or answered with an empty reply
SpellFailed ==
  spResp \in {"notok", "throws"} \/ (spResp = "ok" /\ trim(spellReply) = <<>>)

\* C15: correctSpelling does not throw, and when its request fails (rejection,
\* non-OK status, empty reply) it returns exactly the string it was given;
\* the chat request goes on to retrieval with the uncorrected text.
C15_SpellingFailureIsNoOp ==
  SpellFailed =>
    /\ spPc = "done"
    /\ correctedMessage = message
    /\ (chatPc \notin {"normalize", "rewrite"} /\ rewriteResp \in {"none", "notok", "throws"})
         => searchQuery = message
    /\ (pc # "idle" /\ rewriteResp \in {"none", "notok", "throws"})
         => args.queryText = message

\* C15 witness: after a rejected spell-check request, retrieval ran with the
\* message as given and found a document
C15_Witness ==
  /\ spResp = "throws"
  /\ chatPc = "retrieved"
  /\ correctedMessage = message
  /\ searchQuery = message
  /\ Len(relevantDocs) > 0

\* the rewrite reply is the literal KEEP_ORIGINAL, bare or wrapped in quotes
KeepOriginalReply ==
  rewriteResp = "ok" /\ stripWrappingQuotes(rewriteReply) = <<"K","E","E","P","_","O","R","I","G","I","N","A","L">>

\* C16: when the rewrite reply is the literal KEEP_ORIGINAL (after the
\* wrapping quotes are stripped) the search query handed to embedding and
\* retrieval is the spelling-corrected message, unchanged.
C16_KeepOriginal ==
  KeepOriginalReply =>
    /\ searchQuery = correctedMessage
    /\ pc # "idle" => args.queryText = correctedMessage
    /\ \A i \in 1..Len(embeddingCache) :
         embeddingCache[i].key = normalizeQuery(correctedMessage)

\* C16 witness: a quoted KEEP_ORIGINAL came back for a message the spell
\* check had corrected, and searchDocuments ran on the corrected message
C16_Witness ==
  /\ rewriteResp = "ok"
  /\ rewriteReply = <<"'","K","E","E","P","_","O","R","I","G","I","N","A","L","'">>
  /\ correctedMessage # message
  /\ pc = "done"
  /\ args.queryText = correctedMessage

\* C17 (as stated): when the rewrite request fails (rejection or non-OK
\* status) the request is not blocked and the search query used for
\* retrieval is the user's original, uncorrected message.
C17_UncorrectedOnRewriteFailure ==
  rewriteResp \in {"notok", "throws"} =>
    /\ chatPc \in {"embed", "search", "retrieved", "web", "prompt"}
    /\ searchQuery = message

\* C17 (amended): when the rewrite request fails the request is not blocked
\* and the search query used for retrieval is the spelling-corrected message
\* (the user's message itself when the spell check changed nothing).
C17_CorrectedOnRewriteFailure ==
  rewriteResp \in {"notok", "throws"} =>
    /\ chatPc \in {"embed", "search", "retrieved", "web", "prompt"}
    /\ searchQuery = correctedMessage
    /\ pc # "idle" => args.queryText = correctedMessage
    /\ spResp \in {"skipped", "notok", "throws"} => searchQuery = message

\* C17 witness: the rewrite request rejected for a message the spell check
\* had corrected, and searchDocuments ran on the corrected message
C17_Witness ==
  /\ rewriteResp = "throws"
  /\ correctedMessage # message
  /\ pc = "done"
  /\ args.queryText = correctedMessage

\* the rewritten query of the request: the reply without its wrapping quotes
RewrittenTokens == wordRuns(rewriteReply, 1, <<>>)

\* C18: for every rewritten query that matches the list-names pattern, each
\* all-caps technical acronym in it (2- and 3-letter ones included) is still
\* in the final search query after the topic extraction.
C18_AcronymsSurviveExtraction ==
  (rewriteResp = "ok" /\ isListNamesQuery) =>
    \A i \in 1..Len(RewrittenTokens) :
      ( /\ Len(RewrittenTokens[i]) >= 2
        /\ \A j \in 1..Len(RewrittenTokens[i]) : RewrittenTokens[i][j] \in UpperSet
        /\ RewrittenTokens[i] # <<"K","T","H">> )
      => RewrittenTokens[i] \in Elements(wordRuns(searchQuery, 1, <<>>))

\* C19: whenever the rewritten query matches the list-names pattern, the
\* final search query holds no role noun of that pattern and none of the
\* relational words who, at, of, in, on.
C19_NoRoleNounInFinalQuery ==
  (rewriteResp = "ok" /\ isListNamesQuery) =>
    LET banned == { <<"r","e","s","e","a","r","c","h","e","r">>, <<"r","e","s","e","a","r","c","h","e","r","s">>, <<"a","u","t","h","o","r">>, <<"a","u","t","h","o","r","s">>, <<"s","c","i","e","n","t","i","s","t">>,
                    <<"s","c","i","e","n","t","i","s","t","s">>, <<"p","r","o","f","e","s","s","o","r">>, <<"p","r","o","f","e","s","s","o","r","s">>, <<"n","a","m","e">>, <<"n","a","m","e","s">>,
                    <<"p","e","o","p","l","e">>, <<"t","e","a","m">>, <<"g","r","o","u","p">>, <<"g","r","o","u","p","s">>,
                    <<"w","h","o">>, <<"a","t">>, <<"o","f">>, <<"i","n">>, <<"o","n">> }
        final == wordRuns(searchQuery, 1, <<>>)
    IN \A i \in 1..Len(final) : toLowerCase(final[i]) \notin banned

\* C20: in every chat request where searchDocuments returned at least one
\* document, at least one retrieved document is shown as a source: those
\* with similarity >= 0.55 (at most 5) when there are any, otherwise the top
\* 3 at the looser cutoff.
C20_SourcesNeverEmpty ==
  (chatPc = "retrieved" /\ Len(relevantDocs) > 0) =>
    LET Strong(d) == d.similarity >= (55 * Scale) \div 100
        strong == SelectSeq(relevantDocs, Strong)
    IN /\ Len(sources) >= 1
       /\ \A i \in 1..Len(sources) : sources[i] \in Elements(relevantDocs)
       /\ Len(strong) > 0 => sources = SubSeq(strong, 1, Min(5, Len(strong)))
       /\ Len(strong) = 0 => Len(sources) <= 3

\* C21: for both caches, no lookup returns an entry that was inserted one TTL
\* or more earlier, and the number of entries never exceeds the capacity of
\* 500: every call that answers from a cache answers with an entry younger
\* than CACHE_TTL and leaves at most 500 entries in each cache.
C21_CachesExpireAndBounded ==
  [][ /\ (fnPc' = "generateEmbedding.done" /\ embResp' = "cached" /\ now' = now) =>
           now - embeddingCache[cacheIndex(embeddingCache,
                                           normalizeQuery(fnInput'))].timestamp < CACHE_TTL
      /\ (fnPc' = "correctSpelling.done" /\ spResp' = "cached" /\ now' = now) =>
           now - spellSetAt[spellIndex(spellSetAt, spellKey(fnInput'))][2] < CACHE_TTL
      /\ Len(embeddingCache') <= 500
      /\ Len(spellCache') <= 500 ]_vars

\* the embedding cache alone keeps its TTL: a generateEmbedding call that
\* answers from the cache answers with an entry younger than CACHE_TTL
C21_EmbeddingCacheExpires ==
  [][ (fnPc' = "generateEmbedding.done" /\ embResp' = "cached" /\ now' = now) =>
        now - embeddingCache[cacheIndex(embeddingCache,
                                        normalizeQuery(fnInput'))].timestamp < CACHE_TTL ]_vars

\* C28: the text correctSpelling returns does not depend on earlier calls:
\* for inputs that differ only in letter case and that the model leaves
\* unchanged, each call returns exactly its own input. (No reply of the model
\* here differs from its input in letter case only, so a returned text that
\* equals the input up to case is one the model left unchanged.)
C28_SpellingIndependentOfHistory ==
  (fnPc = "correctSpelling.done" /\ toLowerCase(fnOutput) = toLowerCase(fnInput)) =>
    fnOutput = fnInput

\* C24: for every document year and current year the recency boost lies in
\* [0, 0.05]: 0.05 for a document of the current year, 0.005 less per year of
\* age, 0 from ten years on and for an unknown year, and never above 0.05,
\* also for a document year later than the current year.
C24_RecencyBoostRange ==
  fnPc = "recencyBoost.done" =>
    LET age == fnInput.currentYear - fnInput.docYear
    IN /\ 0 <= fnOutput
       /\ fnOutput <= Hundredths(5)
       /\ fnInput.docYear = 0 => fnOutput = 0
       /\ (fnInput.docYear # 0 /\ age >= 10) => fnOutput = 0
       /\ (fnInput.docYear # 0 /\ age >= 0 /\ age < 10) =>
            fnOutput = Hundredths(5) - age * (Hundredths(5) \div 10)

\* the same for the documents that are not dated after the current year
C24_RecencyBoostRangeUpToNow ==
  (fnPc = "recencyBoost.done" /\ fnInput.docYear <= fnInput.currentYear) =>
    LET age == fnInput.currentYear - fnInput.docYear
    IN /\ 0 <= fnOutput
       /\ fnOutput <= Hundredths(5)
       /\ fnInput.docYear = 0 => fnOutput = 0
       /\ (fnInput.docYear # 0 /\ age >= 10) => fnOutput = 0
       /\ (fnInput.docYear # 0 /\ age >= 0 /\ age < 10) =>
            fnOutput = Hundredths(5) - age * (Hundredths(5) \div 10)

\* the title contains a research-indicator term
HasIndicatorTerm(title) ==
  \E i \in 1..Len(keepPatterns) : includes(toLowerCase(title), keepPatterns[i])

\* position of the last bar of a title that has one
LastBar(title) == CHOOSE p \in 1..Len(title) :
                    title[p] = "|" /\ \A q \in (p + 1)..Len(title) : title[q] # "|"

\* number of space-separated words before the bar of the | KTH suffix, and
\* before the first bar of the title
WordsBeforeSuffix(title) ==
  Len(splitChar(trim(SubSeq(title, 1, LastBar(title) - 1)), " ", 1, <<>>))
WordsBeforeFirstBar(title) ==
  Len(splitChar(trim(splitChar(title, "|", 1, <<>>)[1]), " ", 1, <<>>))

\* C22: a title ending in the | KTH suffix is generic unless it contains a
\* research-indicator term and has more than two words before the separator;
\* Research | KTH is always filtered and BECCS Research Overview | KTH is
\* never filtered, whatever the content.
C22_GenericUnlessIndicator ==
  fnPc = "isGenericPage.done" =>
    /\ endsWithKthSuffix(fnInput.title) =>
         (fnOutput <=> ~(HasIndicatorTerm(fnInput.title) /\ WordsBeforeSuffix(fnInput.title) > 2))
    /\ fnInput.title = <<"R","e","s","e","a","r","c","h"," ","|"," ","K","T","H">> => fnOutput
    /\ fnInput.title = <<"B","E","C","C","S"," ","R","e","s","e","a","r","c","h"," ","O","v","e","r","v","i","e","w"," ","|"," ","K","T","H">> => ~fnOutput

\* C22 as amended: the same for the titles that are neither a listed generic
\* page nor a school, department or division page, the words counted before
\* the first bar of the title.
C22_GenericUnlessIndicatorOrListed ==
  fnPc = "isGenericPage.done" =>
    /\ ( /\ endsWithKthSuffix(fnInput.title)
         /\ trim(toLowerCase(fnInput.title)) \notin exactGenericPages
         /\ ~(\E i \in 1..Len(categoryPatterns) :
                matchesCategory(fnInput.title, categoryPatterns[i])) ) =>
         (fnOutput <=> ~(HasIndicatorTerm(fnInput.title) /\ WordsBeforeFirstBar(fnInput.title) > 2))
    /\ fnInput.title = <<"R","e","s","e","a","r","c","h"," ","|"," ","K","T","H">> => fnOutput
    /\ fnInput.title = <<"B","E","C","C","S"," ","R","e","s","e","a","r","c","h"," ","O","v","e","r","v","i","e","w"," ","|"," ","K","T","H">> => ~fnOutput

C22_Witness ==
  /\ fnPc = "isGenericPage.done"
  /\ fnInput.title = <<"B","E","C","C","S"," ","R","e","s","e","a","r","c","h"," ","O","v","e","r","v","i","e","w"," ","|"," ","K","T","H">>
  /\ fnInput.content = <<"s","o","l","a","r"," ","e","n","e","r","g","y">>
  /\ ~fnOutput

\* C23: every document searchDocuments returns has similarity >= the
\* threshold the caller passed, on every path (hybrid, client-side scan, BM25
\* fallback) and for every threshold.
C23_ThresholdOnEveryPath ==
  Returned => \A i \in 1..Len(result) : result[i].similarity >= args.threshold

\* the two paths that cut at the threshold
C23_ThresholdOnScoredPaths ==
  (Returned /\ path # "bm25") =>
    \A i \in 1..Len(result) : result[i].similarity >= args.threshold

\* C25: extractKeywords yields each keyword at most once, so a repeated word
\* of the query text changes neither the keywords nor the keywordScore of any
\* document: the score is the one of the keywords with the repetitions removed.
C25_KeywordsAreASet ==
  fnPc = "extractKeywords.done" =>
    /\ \A i, j \in 1..Len(fnOutput) : i # j => fnOutput[i] # fnOutput[j]
    /\ \A d \in DocIds :
         keywordMatchScore(Corpus[d], fnOutput) =
           keywordMatchScore(Corpus[d], uniqueInOrder(fnOutput, {}))

\* the rewrite reply has 3 characters or fewer once its wrapping quotes are
\* stripped
ShortRewriteReply ==
  rewriteResp = "ok" /\ Len(stripWrappingQuotes(rewriteReply)) <= 3

\* C29: a rewrite output of 3 or fewer characters after quote stripping (a
\* bare acronym such as CCS) is discarded: the search query stays the
\* spelling-corrected message and the list-names extraction is not run.
C29_ShortRewriteDiscarded ==
  ShortRewriteReply =>
    /\ searchQuery = correctedMessage
    /\ ~isListNamesQuery
    /\ pc # "idle" => args.queryText = correctedMessage

\* C29 witness: the quoted acronym came back for a message the spell check
\* had corrected, and searchDocuments ran on the corrected message
C29_Witness ==
  /\ rewriteResp = "ok"
  /\ rewriteReply = <<"'","C","C","S","'">>
  /\ correctedMessage # message
  /\ pc = "done"
  /\ args.queryText = correctedMessage

\* C30: a searchDocuments call without query text and with a threshold of 0.5
\* or 0.6 (the two routes that pass no text) returns an empty list, for every
\* corpus: keywordScore is 0 and 0.4 * vectorScore + recencyBoost stays below
\* the threshold.
C30_NoTextCallersGetNothing ==
  (Returned /\ args.queryText = <<>> /\ args.threshold >= Hundredths(50)) => result = <<>>

\* the same for the tables without a document dated after the current year
C30_NoTextCallersGetNothingUpToNow ==
  ( /\ Returned /\ args.queryText = <<>> /\ args.threshold >= Hundredths(50)
    /\ \A d \in db : Corpus[d].year <= currentYear ) => result = <<>>

\* embedding generation or candidate retrieval has started
RetrievalStarted ==
  chatPc \in {"embed", "search"} \/ embResp # "none" \/ pc # "idle" \/ embeddingCache # <<>>

\* C26: in every chat request the small-talk classification and the spelling
\* correction are both started before either is awaited, both have completed
\* before the rewrite call starts, and the rewrite call, when one is made,
\* has completed or failed before embedding generation and candidate
\* retrieval start.
C26_StagesInOrder ==
  /\ chatPc = "normalize" => (stPc \in {"fetch", "done"} /\ spPc \in {"fetch", "done"})
  /\ (stPc = "fetch" \/ spPc = "fetch") =>
       (chatPc = "normalize" /\ rewriteResp = "none" /\ ~RetrievalStarted)
  /\ chatPc = "rewrite" =>
       (stPc = "done" /\ spPc = "done" /\ rewriteResp = "none" /\ ~RetrievalStarted)
  /\ RetrievalStarted =>
       /\ stPc = "done" /\ spPc = "done"
       /\ (hasHistory /\ wordCount(correctedMessage) < 15) =>
            rewriteResp \in {"ok", "notok", "throws"}

\* C26 witness: the spell-check request was sent and answered, the rewrite
\* request was made and failed, and the embedding request is now in flight
C26_Witness ==
  /\ chatPc = "embed"
  /\ spResp = "ok"
  /\ hasHistory
  /\ rewriteResp = "throws"

\* C27: every chat request eventually leaves query understanding and
\* retrieval and reaches response generation, also when a provider request
\* never answers.
C27_ReachesGeneration == (chatPc = "normalize") ~> (chatPc = "prompt")

\* the same when every provider request is answered
C27_ReachesGenerationWhenAnswered == (chatPc # "idle") ~> (chatPc = "prompt")
=============================================================================
